---- MODULE Spec2Model ----
(***************************************************************************)
(* Aleks-Food-Map: the catalog pipeline of App.jsx (base dataset + local   *)
(* edit overlay -> merge -> filter -> sort), the overlay's persistence in  *)
(* localStorage and the edit form that feeds it.                           *)
(*                                                                         *)
(* JavaScript values are tagged records (field t is the typeof-like tag):  *)
(* numbers are held in tenths (4.5 is Num(45), price 2 is Num(20)),        *)
(* strings are sequences of one-character strings, objects are functions   *)
(* from property keys to values, arrays are sequences of values.           *)
(***************************************************************************)
EXTENDS Integers, Sequences, FiniteSets, TLC

\* ---------------------------------------------------------------- values

Undefined == [t |-> "undefined"]
Null == [t |-> "null"]
NaN == [t |-> "number", nan |-> TRUE]
Bool(b) == [t |-> "boolean", b |-> b]
Num(n) == [t |-> "number", n |-> n]
Str(s) == [t |-> "string", s |-> s]
Arr(a) == [t |-> "array", a |-> a]
Obj(o) == [t |-> "object", o |-> o]

NoProps == [k \in {} |-> Undefined]
EmptyObj == Obj(NoProps)
EmptyStr == Str(<<>>)

IsNaN(v) == v.t = "number" /\ "nan" \in DOMAIN v
IsNum(v) == v.t = "number" /\ ~IsNaN(v)

\* typeof v
TypeOf(v) ==
    IF v.t \in {"null", "array"} THEN "object" ELSE v.t

\* ToBoolean: what `if (v)`, `!v`, `a || b` and filter(Boolean) test
Truthy(v) ==
    CASE v.t \in {"undefined", "null"} -> FALSE
      [] v.t = "boolean" -> v.b
      [] v.t = "number" -> ~IsNaN(v) /\ v.n # 0
      [] v.t = "string" -> v.s # <<>>
      [] OTHER -> TRUE

\* a || b
Or(a, b) == IF Truthy(a) THEN a ELSE b

\* a ?? b
Coalesce(a, b) == IF a.t \in {"undefined", "null"} THEN b ELSE a

\* a === b (objects and arrays are compared by content here: the pipeline
\* only ever applies === to primitives)
StrictEq(a, b) == ~IsNaN(a) /\ ~IsNaN(b) /\ a = b

\* ---------------------------------------------------------------- strings

Space == " "
Upper == {"A", "B", "G", "R", "S", "T"}
LowerOf ==
    [c \in Upper |->
        CASE c = "A" -> "a" [] c = "B" -> "b" [] c = "G" -> "g"
          [] c = "R" -> "r" [] c = "S" -> "s" [] c = "T" -> "t"]

\* String.prototype.toLowerCase
ToLowerCase(s) ==
    [i \in 1..Len(s) |-> IF s[i] \in Upper THEN LowerOf[s[i]] ELSE s[i]]

RECURSIVE TrimStart(_)
TrimStart(s) ==
    IF s # <<>> /\ Head(s) = Space THEN TrimStart(Tail(s)) ELSE s

RECURSIVE TrimEnd(_)
TrimEnd(s) ==
    IF s # <<>> /\ s[Len(s)] = Space
    THEN TrimEnd(SubSeq(s, 1, Len(s) - 1))
    ELSE s

\* String.prototype.trim
Trim(s) == TrimEnd(TrimStart(s))

\* String.prototype.includes
Includes(hay, needle) ==
    \E i \in 0..(Len(hay) - Len(needle)) :
        SubSeq(hay, i + 1, i + Len(needle)) = needle

\* Array.prototype.join(" ") over an array of strings
RECURSIVE JoinSpace(_)
JoinSpace(parts) ==
    IF parts = <<>> THEN <<>>
    ELSE IF Len(parts) = 1 THEN parts[1]
    ELSE parts[1] \o <<Space>> \o JoinSpace(Tail(parts))

\* The property key a string value names (obj[str])
RECURSIVE ToKey(_)
ToKey(s) == IF s = <<>> THEN "" ELSE Head(s) \o ToKey(Tail(s))

\* ---------------------------------------------------------------- numbers

DigitChars == {"0", "1", "2", "3", "4", "5", "6", "7", "8", "9"}
DigitVal ==
    [c \in DigitChars |->
        CASE c = "0" -> 0 [] c = "1" -> 1 [] c = "2" -> 2 [] c = "3" -> 3
          [] c = "4" -> 4 [] c = "5" -> 5 [] c = "6" -> 6 [] c = "7" -> 7
          [] c = "8" -> 8 [] c = "9" -> 9]

AllDigits(s) == s # <<>> /\ \A i \in 1..Len(s) : s[i] \in DigitChars

RECURSIVE DigitsValue(_)
DigitsValue(s) ==
    IF s = <<>> THEN 0
    ELSE 10 * DigitsValue(SubSeq(s, 1, Len(s) - 1)) + DigitVal[s[Len(s)]]

\* StringToNumber on an unsigned literal with at most one decimal digit, in
\* tenths; anything else that is not blank is NaN.
UnsignedToNumber(s) ==
    IF AllDigits(s) THEN Num(10 * DigitsValue(s))
    ELSE IF Len(s) >= 3 /\ s[Len(s) - 1] = "."
            /\ AllDigits(SubSeq(s, 1, Len(s) - 2)) /\ s[Len(s)] \in DigitChars
    THEN Num(10 * DigitsValue(SubSeq(s, 1, Len(s) - 2)) + DigitVal[s[Len(s)]])
    ELSE NaN

StringToNumber(s) ==
    LET u == Trim(s) IN
    IF u = <<>> THEN Num(0)
    ELSE IF Head(u) = "-"
    THEN LET m == UnsignedToNumber(Tail(u)) IN
         IF IsNaN(m) THEN NaN ELSE Num(0 - m.n)
    ELSE UnsignedToNumber(u)

\* Number(v)
ToNumber(v) ==
    CASE v.t = "undefined" -> NaN
      [] v.t = "null" -> Num(0)
      [] v.t = "boolean" -> IF v.b THEN Num(10) ELSE Num(0)
      [] v.t = "number" -> v
      [] v.t = "string" -> StringToNumber(v.s)
      [] v.t = "array" ->
            IF v.a = <<>> THEN Num(0)
            ELSE IF Len(v.a) = 1 /\ v.a[1].t \in {"number", "string"}
            THEN IF v.a[1].t = "number" THEN v.a[1] ELSE StringToNumber(v.a[1].s)
            ELSE NaN
      [] OTHER -> NaN

\* Number.isFinite(v): no coercion, and the model holds no infinities
NumberIsFinite(v) == IsNum(v)

\* ---------------------------------------------------------------- objects

\* obj[key] and obj?.[key] on a non-nullish obj
Get(v, key) ==
    CASE v.t = "object" -> IF key \in DOMAIN v.o THEN v.o[key] ELSE Undefined
      [] v.t = "array" ->
            IF \E i \in 1..Len(v.a) : ToString(i - 1) = key
            THEN v.a[CHOOSE i \in 1..Len(v.a) : ToString(i - 1) = key]
            ELSE Undefined
      [] v.t = "string" ->
            IF \E i \in 1..Len(v.s) : ToString(i - 1) = key
            THEN Str(<<v.s[CHOOSE i \in 1..Len(v.s) : ToString(i - 1) = key]>>)
            ELSE Undefined
      [] OTHER -> Undefined

\* The own enumerable properties `...v` copies
OwnProps(v) ==
    CASE v.t = "object" -> v.o
      [] v.t = "array" ->
            [k \in {ToString(i - 1) : i \in 1..Len(v.a)} |->
                v.a[CHOOSE i \in 1..Len(v.a) : ToString(i - 1) = k]]
      [] v.t = "string" ->
            [k \in {ToString(i - 1) : i \in 1..Len(v.s)} |->
                Str(<<v.s[CHOOSE i \in 1..Len(v.s) : ToString(i - 1) = k]>>)]
      [] OTHER -> NoProps

\* { ...a, ...b }
Spread(a, b) ==
    LET pa == OwnProps(a)
        pb == OwnProps(b)
    IN Obj([k \in DOMAIN pa \cup DOMAIN pb |->
                IF k \in DOMAIN pb THEN pb[k] ELSE pa[k]])

\* { ...a, [key]: v }
With(a, key, v) ==
    LET pa == OwnProps(a)
    IN Obj([k \in DOMAIN pa \cup {key} |-> IF k = key THEN v ELSE pa[k]])

\* ---------------------------------------------------------------- JSON

\* What JSON.stringify keeps of a value: a property holding undefined is
\* dropped, an array slot holding undefined and a NaN become null.
RECURSIVE ToJson(_)
ToJson(v) ==
    CASE v.t = "object" ->
            Obj([k \in {j \in DOMAIN v.o : v.o[j].t # "undefined"} |->
                    ToJson(v.o[k])])
      [] v.t = "array" -> Arr([i \in 1..Len(v.a) |-> ToJson(v.a[i])])
      [] v.t = "undefined" -> Null
      [] IsNaN(v) -> Null
      [] OTHER -> v

\* A stored item is absent, the empty text, a text that is not JSON, or a
\* JSON text, held as the document it denotes.
Absent == [kind |-> "absent"]
EmptyText == [kind |-> "empty"]
Garbage == [kind |-> "garbage"]
JsonText(doc) == [kind |-> "json", doc |-> doc]

JsonStringify(v) == JsonText(ToJson(v))

\* JSON.parse: the value, or a SyntaxError
JsonParse(raw) ==
    IF raw.kind = "json"
    THEN [threw |-> FALSE, v |-> raw.doc]
    ELSE [threw |-> TRUE, v |-> Undefined]

\* ---------------------------------------------------------------- storage

\* localStorage of the browsing context: "ok", "full" (reads succeed, every
\* write throws QuotaExceededError) or "blocked" (every access throws).
StorageModes == {"ok", "full", "blocked"}

GetItem(mode, item) ==
    IF mode = "blocked"
    THEN [threw |-> TRUE, raw |-> Absent]
    ELSE [threw |-> FALSE, raw |-> item]

SetItem(mode, item, text) ==
    IF mode = "ok"
    THEN [threw |-> FALSE, item |-> text]
    ELSE [threw |-> TRUE, item |-> item]

\* The try block of loadEdits
LoadEditsTry(mode, item) ==
    LET got == GetItem(mode, item) IN
    IF got.threw THEN [threw |-> TRUE, v |-> Undefined]
    ELSE IF got.raw.kind \in {"absent", "empty"}
    THEN [threw |-> FALSE, v |-> EmptyObj]
    ELSE LET parsed == JsonParse(got.raw) IN
         IF parsed.threw THEN [threw |-> TRUE, v |-> Undefined]
         ELSE IF Truthy(parsed.v) /\ TypeOf(parsed.v) = "object"
         THEN [threw |-> FALSE, v |-> parsed.v]
         ELSE [threw |-> FALSE, v |-> EmptyObj]

LoadEdits(mode, item) ==
    LET r == LoadEditsTry(mode, item) IN
    IF r.threw THEN [threw |-> FALSE, v |-> EmptyObj] ELSE r

\* saveEdits without its try/catch
SaveEditsUncaught(mode, item, e) ==
    LET r == SetItem(mode, item, JsonStringify(e)) IN
    [threw |-> r.threw, failed |-> r.threw, item |-> r.item]

\* saveEdits that never reaches setItem
SaveEditsNoWrite(mode, item, e) ==
    [threw |-> FALSE, failed |-> FALSE, item |-> item]


SaveEdits(mode, item, e) ==
    LET r == SetItem(mode, item, JsonStringify(e)) IN
    [threw |-> FALSE, failed |-> r.threw, item |-> r.item]

\* ---------------------------------------------------------------- merge

\* The merge with the spread reversed: { ...patch, ...p }
MergePlaceBaseWins(p, e) ==
    LET patch == Get(e, ToKey(Get(p, "id").s)) IN
    IF Truthy(patch) THEN Spread(patch, p) ELSE p

\* One element of places: base place p under the overlay e
MergePlace(p, e) ==
    LET patch == Get(e, ToKey(Get(p, "id").s)) IN
    IF Truthy(patch) THEN Spread(p, patch) ELSE p

\* places = basePlaces.map(...)
Places(base, e) == [i \in 1..Len(base) |-> MergePlace(base[i], e)]

\* ---------------------------------------------------------------- filter

DigitChar(d) == CHOOSE c \in DigitChars : DigitVal[c] = d

RECURSIVE NatToString(_)
NatToString(n) ==
    IF n < 10 THEN <<DigitChar(n)>>
    ELSE NatToString(n \div 10) \o <<DigitChar(n % 10)>>

\* The number written without its fraction, as toFixed(0) would cut it
NumberToStringWhole(v) ==
    IF IsNaN(v) THEN <<"N", "a", "N">>
    ELSE IF v.n < 0 THEN <<"-">> \o NatToString((0 - v.n) \div 10)
    ELSE NatToString(v.n \div 10)

\* String(v) for a number held in tenths
NumberToString(v) ==
    IF IsNaN(v) THEN <<"N", "a", "N">>
    ELSE LET m == IF v.n < 0 THEN 0 - v.n ELSE v.n
             body == IF m % 10 = 0 THEN NatToString(m \div 10)
                     ELSE NatToString(m \div 10) \o <<".">> \o <<DigitChar(m % 10)>>
         IN IF v.n < 0 THEN <<"-">> \o body ELSE body

\* a < b on numbers (false when either is NaN)
Less(a, b) == IsNum(a) /\ IsNum(b) /\ a.n < b.n

\* a > 0
Positive(a) == IsNum(a) /\ a.n > 0

\* v.includes(x): Array.prototype.includes, String.prototype.includes, or a
\* TypeError where v has no such method
MethodIncludes(v, x) ==
    CASE v.t = "array" ->
            [threw |-> FALSE, r |-> \E i \in 1..Len(v.a) : v.a[i] = x]
      [] v.t = "string" /\ x.t = "string" ->
            [threw |-> FALSE, r |-> Includes(v.s, x.s)]
      [] OTHER -> [threw |-> TRUE, r |-> FALSE]

\* [...v]: the elements of an array, the characters of a string, or a
\* TypeError where v is not iterable
Iterate(v) ==
    CASE v.t = "array" -> [threw |-> FALSE, a |-> v.a]
      [] v.t = "string" ->
            [threw |-> FALSE, a |-> [i \in 1..Len(v.s) |-> Str(<<v.s[i]>>)]]
      [] OTHER -> [threw |-> TRUE, a |-> <<>>]

\* What join() writes for one element
ElementText(v) ==
    CASE v.t = "string" -> v.s
      [] v.t = "number" -> NumberToString(v)
      [] v.t = "boolean" ->
            IF v.b THEN <<"t", "r", "u", "e">> ELSE <<"f", "a", "l", "s", "e">>
      [] OTHER -> <<"[", "o", "]">>

RECURSIVE SelectTruthy(_)
SelectTruthy(a) ==
    IF a = <<>> THEN <<>>
    ELSE IF Truthy(Head(a)) THEN <<Head(a)>> \o SelectTruthy(Tail(a))
    ELSE SelectTruthy(Tail(a))

\* Hay without p.notes among the fields
HayWithoutNotes(p, cuisines, tags) ==
    LET fields == <<Get(p, "name"), Get(p, "address"), Get(p, "city"),
                    Get(p, "neighborhood")>>
                  \o cuisines \o tags
        kept == SelectTruthy(fields)
    IN ToLowerCase(JoinSpace([i \in 1..Len(kept) |-> ElementText(kept[i])]))

\* hay of the filter callback
Hay(p, cuisines, tags) ==
    LET fields == <<Get(p, "name"), Get(p, "address"), Get(p, "city"),
                    Get(p, "neighborhood")>>
                  \o cuisines \o tags \o <<Get(p, "notes")>>
        kept == SelectTruthy(fields)
    IN ToLowerCase(JoinSpace([i \in 1..Len(kept) |-> ElementText(kept[i])]))

\* The statements of the callback of places.filter in `filtered`: each
\* lets the place pass, returns false ("out") or throws
CityStep(p, Q) ==
    IF Truthy(Q.city) /\ ~StrictEq(Or(Get(p, "city"), EmptyStr), Q.city)
    THEN "out" ELSE "pass"

NeighborhoodStep(p, Q) ==
    IF Truthy(Q.neighborhood)
       /\ ~StrictEq(Or(Get(p, "neighborhood"), EmptyStr), Q.neighborhood)
    THEN "out" ELSE "pass"

\* CuisineStep without the `cuisine &&` guard
CuisineStepUnguarded(p, Q) ==
    LET has == MethodIncludes(Or(Get(p, "cuisine"), Arr(<<>>)), Q.cuisine) IN
    IF has.threw THEN "throws" ELSE IF has.r THEN "pass" ELSE "out"

CuisineStep(p, Q) ==
    IF ~Truthy(Q.cuisine) THEN "pass"
    ELSE LET has == MethodIncludes(Or(Get(p, "cuisine"), Arr(<<>>)), Q.cuisine) IN
         IF has.threw THEN "throws" ELSE IF has.r THEN "pass" ELSE "out"

TagStep(p, Q) ==
    IF ~Truthy(Q.tag) THEN "pass"
    ELSE LET has == MethodIncludes(Or(Get(p, "tags"), Arr(<<>>)), Q.tag) IN
         IF has.threw THEN "throws" ELSE IF has.r THEN "pass" ELSE "out"

PriceStep(p, Q) ==
    IF Positive(Q.price)
       /\ ~StrictEq(ToNumber(Or(Get(p, "price"), Num(0))), ToNumber(Q.price))
    THEN "out" ELSE "pass"

WouldReturnStep(p, Q) ==
    IF Truthy(Q.wouldReturn) /\ ~StrictEq(Get(p, "wouldReturn"), Bool(TRUE))
    THEN "out" ELSE "pass"

RatingStep(p, Q) ==
    LET r == IF TypeOf(Get(p, "rating")) = "number" THEN Get(p, "rating") ELSE Num(0)
    IN IF Positive(Q.minRating) /\ Less(r, Q.minRating) THEN "out" ELSE "pass"

\* qq, and the rest of the callback from `if (!qq) return true`
SearchTerm(Q) == ToLowerCase(Trim(Q.q.s))

TextStep(p, Q) ==
    LET qq == SearchTerm(Q)
        itC == Iterate(Or(Get(p, "cuisine"), Arr(<<>>)))
        itT == Iterate(Or(Get(p, "tags"), Arr(<<>>)))
    IN IF qq = <<>> THEN "in"
       ELSE IF itC.threw \/ itT.threw THEN "throws"
       ELSE IF Includes(Hay(p, itC.a, itT.a), qq) THEN "in"
       ELSE "out"

\* The callback: "in", "out" or "throws"
Matches(p, Q) ==
    IF CityStep(p, Q) # "pass" THEN CityStep(p, Q)
    ELSE IF NeighborhoodStep(p, Q) # "pass" THEN NeighborhoodStep(p, Q)
    ELSE IF CuisineStep(p, Q) # "pass" THEN CuisineStep(p, Q)
    ELSE IF TagStep(p, Q) # "pass" THEN TagStep(p, Q)
    ELSE IF PriceStep(p, Q) # "pass" THEN PriceStep(p, Q)
    ELSE IF WouldReturnStep(p, Q) # "pass" THEN WouldReturnStep(p, Q)
    ELSE IF RatingStep(p, Q) # "pass" THEN RatingStep(p, Q)
    ELSE TextStep(p, Q)

RECURSIVE SelectIn(_, _)
SelectIn(ps, Q) ==
    IF ps = <<>> THEN <<>>
    ELSE IF Matches(Head(ps), Q) = "in" THEN <<Head(ps)>> \o SelectIn(Tail(ps), Q)
    ELSE SelectIn(Tail(ps), Q)

\* filtered: the matching places in order; threw when a callback threw
Filtered(ps, Q) ==
    IF \E i \in 1..Len(ps) : Matches(ps[i], Q) = "throws"
    THEN [threw |-> TRUE, v |-> <<>>]
    ELSE [threw |-> FALSE, v |-> SelectIn(ps, Q)]

\* ---------------------------------------------------------------- sort

\* String.prototype.localeCompare in the root collation, over the characters
\* the model's names and dates are written with: the strings are compared
\* letter by letter without regard to case, space before punctuation before
\* digits before letters, and where that finds no difference the first
\* difference of case decides, lowercase first.
CollationOrder ==
    <<" ", "-", ".", "0", "1", "2", "3", "4", "5", "6", "7", "8", "9",
      "a", "b", "c", "d", "e", "f", "g", "h", "i", "j", "k", "l", "m",
      "n", "o", "p", "q", "r", "s", "t", "u", "v", "w", "x", "y", "z">>

PrimaryWeight(c) ==
    LET l == ToLowerCase(<<c>>)[1]
    IN CHOOSE i \in 1..Len(CollationOrder) : CollationOrder[i] = l

RECURSIVE ComparePrimary(_, _)
ComparePrimary(s, t) ==
    IF s = <<>> THEN (IF t = <<>> THEN 0 ELSE -1)
    ELSE IF t = <<>> THEN 1
    ELSE IF PrimaryWeight(Head(s)) < PrimaryWeight(Head(t)) THEN -1
    ELSE IF PrimaryWeight(Head(s)) > PrimaryWeight(Head(t)) THEN 1
    ELSE ComparePrimary(Tail(s), Tail(t))

RECURSIVE CompareCase(_, _)
CompareCase(s, t) ==
    IF s = <<>> \/ t = <<>> THEN 0
    ELSE IF Head(s) = Head(t) THEN CompareCase(Tail(s), Tail(t))
    ELSE IF Head(s) \in Upper THEN 1
    ELSE -1

LocaleCompare(s, t) ==
    IF ComparePrimary(s, t) # 0 THEN ComparePrimary(s, t) ELSE CompareCase(s, t)

\* haversineMiles at the coordinates of the model (numbers held in tenths of
\* a degree), in thousandths of a mile: the value of the formula in IEEE
\* doubles, rounded.  From (47.6, -122.3) and (47.7, -122.3) to the points
\* (0, -122.3), (47.6, -122.3), (47.7, -122.3) and (47.6, -122.2).
HaversineMiles(lat1, lon1, lat2, lon2) ==
    LET from == <<lat1.n, lon1.n>>
        to == <<lat2.n, lon2.n>>
    IN CASE from = <<476, -1223>> /\ to = <<0, -1223>> -> 3288879
         [] from = <<476, -1223>> /\ to = <<476, -1223>> -> 0
         [] from = <<476, -1223>> /\ to = <<477, -1223>> -> 6909
         [] from = <<476, -1223>> /\ to = <<476, -1222>> -> 4659
         [] from = <<477, -1223>> /\ to = <<0, -1223>> -> 3295788
         [] from = <<477, -1223>> /\ to = <<476, -1223>> -> 6909
         [] from = <<477, -1223>> /\ to = <<477, -1223>> -> 0
         [] from = <<477, -1223>> /\ to = <<476, -1222>> -> 8331

\* The comparators handed to arr.sort, each giving a number whose sign is
\* what sort looks at
CompareName(a, b) ==
    LocaleCompare(Or(Get(a, "name"), EmptyStr).s, Or(Get(b, "name"), EmptyStr).s)

CompareRecent(a, b) ==
    LocaleCompare(Or(Get(b, "visitedAt"), EmptyStr).s,
                  Or(Get(a, "visitedAt"), EmptyStr).s)

HasCoords(p) ==
    /\ NumberIsFinite(ToNumber(Get(p, "lat")))
    /\ NumberIsFinite(ToNumber(Get(p, "lon")))

\* The nearest comparator with the two distances exchanged
CompareNearestFarthestFirst(a, b, loc) ==
    IF ~HasCoords(a) THEN 1
    ELSE IF ~HasCoords(b) THEN -1
    ELSE HaversineMiles(Get(loc, "lat"), Get(loc, "lon"),
                        ToNumber(Get(b, "lat")), ToNumber(Get(b, "lon")))
         - HaversineMiles(Get(loc, "lat"), Get(loc, "lon"),
                          ToNumber(Get(a, "lat")), ToNumber(Get(a, "lon")))

CompareNearest(a, b, loc) ==
    IF ~HasCoords(a) THEN 1
    ELSE IF ~HasCoords(b) THEN -1
    ELSE HaversineMiles(Get(loc, "lat"), Get(loc, "lon"),
                        ToNumber(Get(a, "lat")), ToNumber(Get(a, "lon")))
         - HaversineMiles(Get(loc, "lat"), Get(loc, "lon"),
                          ToNumber(Get(b, "lat")), ToNumber(Get(b, "lon")))

CompareTop(a, b) ==
    Or(ToNumber(Get(b, "rating")), Num(-10)).n
    - Or(ToNumber(Get(a, "rating")), Num(-10)).n

\* Array.prototype.sort leaves the order implementation-defined where the
\* comparator is not a consistent one, so the result is that of the engine
\* the page runs in.  For the short arrays of a place list the engines sort
\* by insertion: "later-first" finds a run and then inserts by binary
\* search, calling comparefn(the element being placed, an earlier one);
\* "earlier-first" inserts by walking back, calling comparefn(an earlier
\* element, the element being placed).
SortEngines == {"later-first", "earlier-first"}

RECURSIVE Reverse(_)
Reverse(a) == IF a = <<>> THEN <<>> ELSE Append(Reverse(Tail(a)), Head(a))

\* The length of the run at the head of a, given whether it is descending
RECURSIVE RunLength(_, _, _, _)
RunLength(a, c, descending, len) ==
    IF len >= Len(a) THEN len
    ELSE LET order == c[a[len + 1], a[len]] IN
         IF (descending /\ order >= 0) \/ (~descending /\ order < 0) THEN len
         ELSE RunLength(a, c, descending, len + 1)

\* The index (from 0) the binary search gives pivot in the sorted prefix
RECURSIVE BinarySearch(_, _, _, _, _)
BinarySearch(prefix, pivot, c, left, right) ==
    IF left >= right THEN left
    ELSE LET mid == left + ((right - left) \div 2) IN
         IF c[pivot, prefix[mid + 1]] < 0
         THEN BinarySearch(prefix, pivot, c, left, mid)
         ELSE BinarySearch(prefix, pivot, c, mid + 1, right)

RECURSIVE BinaryInsertion(_, _, _)
BinaryInsertion(prefix, rest, c) ==
    IF rest = <<>> THEN prefix
    ELSE LET at == BinarySearch(prefix, Head(rest), c, 0, Len(prefix)) IN
         BinaryInsertion(SubSeq(prefix, 1, at) \o <<Head(rest)>>
                            \o SubSeq(prefix, at + 1, Len(prefix)),
                         Tail(rest), c)

SortLaterFirst(a, c) ==
    IF Len(a) < 2 THEN a
    ELSE LET descending == c[a[2], a[1]] < 0
             len == RunLength(a, c, descending, 2)
             run == IF descending THEN Reverse(SubSeq(a, 1, len))
                    ELSE SubSeq(a, 1, len)
         IN BinaryInsertion(run, SubSeq(a, len + 1, Len(a)), c)

RECURSIVE WalkBack(_, _, _)
WalkBack(prefix, item, c) ==
    IF prefix = <<>> THEN <<item>>
    ELSE IF c[prefix[Len(prefix)], item] <= 0 THEN Append(prefix, item)
    ELSE Append(WalkBack(SubSeq(prefix, 1, Len(prefix) - 1), item, c),
                prefix[Len(prefix)])

RECURSIVE LinearInsertion(_, _, _)
LinearInsertion(prefix, rest, c) ==
    IF rest = <<>> THEN prefix
    ELSE LinearInsertion(WalkBack(prefix, Head(rest), c), Tail(rest), c)

SortEarlierFirst(a, c) == LinearInsertion(<<>>, a, c)

\* arr.sort(comparefn), the comparator given as its table over the elements
ArraySort(a, c, engine) ==
    IF engine = "later-first" THEN SortLaterFirst(a, c) ELSE SortEarlierFirst(a, c)

Elements(a) == {a[i] : i \in 1..Len(a)}

\* The nearest branch falling back to the top order without a location
NearestOrderFallsBack(arr, loc, engine) ==
    IF ~Truthy(loc)
    THEN ArraySort(arr, [x, y \in Elements(arr) |-> CompareTop(x, y)], engine)
    ELSE ArraySort(arr, [x, y \in Elements(arr) |-> CompareNearest(x, y, loc)],
                   engine)

\* The nearest branch ordering only the places that have coordinates
NearestOrderWithCoordsOnly(arr, loc, engine) ==
    IF ~Truthy(loc) THEN arr
    ELSE LET located == SelectSeq(arr, HasCoords) IN
         ArraySort(located,
                   [x, y \in Elements(located) |-> CompareNearest(x, y, loc)],
                   engine)

\* The branch of sorted for sort === "nearest"
NearestOrder(arr, loc, engine) ==
    IF ~Truthy(loc) THEN arr
    ELSE ArraySort(arr, [x, y \in Elements(arr) |-> CompareNearest(x, y, loc)],
                   engine)

\* sorted, for the filtered list arr, the strategy and the user location
Sorted(arr, strategy, loc, engine) ==
    IF StrictEq(strategy, Str(<<"n", "a", "m", "e">>))
    THEN ArraySort(arr, [x, y \in Elements(arr) |-> CompareName(x, y)], engine)
    ELSE IF StrictEq(strategy, Str(<<"r", "e", "c", "e", "n", "t">>))
    THEN ArraySort(arr, [x, y \in Elements(arr) |-> CompareRecent(x, y)], engine)
    ELSE IF StrictEq(strategy, Str(<<"n", "e", "a", "r", "e", "s", "t">>))
    THEN NearestOrder(arr, loc, engine)
    ELSE ArraySort(arr, [x, y \in Elements(arr) |-> CompareTop(x, y)], engine)

\* ---------------------------------------------------------------- URL state

SortTop == Str(<<"t", "o", "p">>)
SortRecent == Str(<<"r", "e", "c", "e", "n", "t">>)
SortName == Str(<<"n", "a", "m", "e">>)
SortNearest == Str(<<"n", "e", "a", "r", "e", "s", "t">>)

\* URLSearchParams.get: the query string is held as its decoded parameters
SpGet(sp, key) == IF key \in DOMAIN sp THEN Str(sp[key]) ELSE Null

NoParams == [k \in {} |-> <<>>]

ParseUrlState(sp) ==
    [q |-> Coalesce(SpGet(sp, "q"), EmptyStr),
     city |-> Coalesce(SpGet(sp, "city"), EmptyStr),
     cuisine |-> Coalesce(SpGet(sp, "cuisine"), EmptyStr),
     neighborhood |-> Coalesce(SpGet(sp, "hood"), EmptyStr),
     tag |-> Coalesce(SpGet(sp, "tag"), EmptyStr),
     minRating |-> ToNumber(Coalesce(SpGet(sp, "minRating"), Str(<<"0">>))),
     price |-> ToNumber(Coalesce(SpGet(sp, "price"), Str(<<"0">>))),
     wouldReturn |-> Bool(StrictEq(SpGet(sp, "return"), Str(<<"1">>))),
     sort |-> Coalesce(SpGet(sp, "sort"), SortTop)]

\* The parameters writeUrlState sets, in the order it sets them
WriteUrlState(state) ==
    LET has == [k \in {"q", "city", "cuisine", "hood", "tag", "minRating",
                       "price", "return", "sort"} |->
                  CASE k = "q" -> Truthy(state.q)
                    [] k = "city" -> Truthy(state.city)
                    [] k = "cuisine" -> Truthy(state.cuisine)
                    [] k = "hood" -> Truthy(state.neighborhood)
                    [] k = "tag" -> Truthy(state.tag)
                    [] k = "minRating" -> Positive(state.minRating)
                    [] k = "price" -> Positive(state.price)
                    [] k = "return" -> Truthy(state.wouldReturn)
                    [] k = "sort" ->
                          Truthy(state.sort) /\ ~StrictEq(state.sort, SortTop)]
    IN [k \in {j \in DOMAIN has : has[j]} |->
          CASE k = "q" -> state.q.s
            [] k = "city" -> state.city.s
            [] k = "cuisine" -> state.cuisine.s
            [] k = "hood" -> state.neighborhood.s
            [] k = "tag" -> state.tag.s
            [] k = "minRating" -> NumberToString(state.minRating)
            [] k = "price" -> NumberToString(state.price)
            [] k = "return" -> <<"1">>
            [] k = "sort" -> state.sort.s]

\* ---------------------------------------------------------------- state

VARIABLES
    basePlaces,     \* placesData, the imported dataset
    geolocation,    \* whether navigator.geolocation exists in this browser
    storageMode,    \* how localStorage behaves in this browsing context
    storage,        \* the item stored under EDITS_KEY
    url,            \* the parameters of window.location.search
    edits,          \* useState(() => loadEdits())
    q, city, cuisine, neighborhood, tag, minRating, price, wouldReturn, sort,
    selectedId, menuOpen, menuTab, myLoc, locErr,
    pending,        \* the getCurrentPosition requests not yet answered
    issued,         \* how many getCurrentPosition requests were made
    editingId, draft,
    crashed,        \* an exception left a handler, an effect or the render
    events,         \* how many user events the page has handled
    lastOp          \* the operation that led here and how its write ended

vars ==
    <<basePlaces, geolocation, storageMode, storage, url, edits, q, city, cuisine,
      neighborhood, tag, minRating, price, wouldReturn, sort, selectedId,
      menuOpen, menuTab, myLoc, locErr, pending, issued, editingId, draft,
      crashed, events, lastOp>>

queryVars ==
    <<q, city, cuisine, neighborhood, tag, minRating, price, wouldReturn, sort>>

Query ==
    [q |-> q, city |-> city, cuisine |-> cuisine, neighborhood |-> neighborhood,
     tag |-> tag, minRating |-> minRating, price |-> price,
     wouldReturn |-> wouldReturn, sort |-> sort]

\* The derived values of one render
places == Places(basePlaces, edits)
filtered == Filtered(places, Query)
sorted(engine) == Sorted(filtered.v, sort, myLoc, engine)

\* placesWithCoords: the places Leaflet is given
PlacesWithCoords(ps) == SelectSeq(ps, HasCoords)
placesWithCoords == PlacesWithCoords(places)

\* p is one of the displayed places: sorted.some((s) => s.id === p.id)
IsDisplayed(p, shown) ==
    \E i \in 1..Len(shown) : StrictEq(Get(shown[i], "id"), Get(p, "id"))

\* The <Marker>s inside the MarkerClusterGroup
Markers(engine) ==
    LET shown == sorted(engine)
        OnMap(p) == IsDisplayed(p, shown)
    IN SelectSeq(placesWithCoords, OnMap)

\* ---------------------------------------------------------------- facets

\* The characters of the model in the order of their UTF-16 code units
CodeUnitOrder ==
    <<" ", "-", ".", "0", "1", "2", "3", "4", "5", "6", "7", "8", "9",
      "A", "B", "G", "R", "S", "T", "X", "[", "]",
      "a", "b", "c", "d", "e", "f", "g", "h", "i", "j", "k", "l", "m",
      "n", "o", "p", "q", "r", "s", "t", "u", "v", "w", "x", "y", "z">>

CodeUnit(c) == CHOOSE i \in 1..Len(CodeUnitOrder) : CodeUnitOrder[i] = c

\* The comparison Array.prototype.sort() makes without a comparefn: the
\* strings of the two values, code unit by code unit
RECURSIVE CompareCodeUnits(_, _)
CompareCodeUnits(s, t) ==
    IF s = <<>> THEN (IF t = <<>> THEN 0 ELSE -1)
    ELSE IF t = <<>> THEN 1
    ELSE IF CodeUnit(Head(s)) < CodeUnit(Head(t)) THEN -1
    ELSE IF CodeUnit(Head(s)) > CodeUnit(Head(t)) THEN 1
    ELSE CompareCodeUnits(Tail(s), Tail(t))

SortCompare(x, y) == CompareCodeUnits(ElementText(x), ElementText(y))

\* Array.from(new Set(a)): the first occurrence of each value, in order
RECURSIVE Distinct(_)
Distinct(a) ==
    IF a = <<>> THEN <<>>
    ELSE LET rest == Distinct(SubSeq(a, 1, Len(a) - 1)) IN
         IF a[Len(a)] \in Elements(rest) THEN rest ELSE Append(rest, a[Len(a)])

\* uniq without its .sort()
UniqUnsorted(arr, engine) == Distinct(SelectTruthy(arr))

\* uniq of facets
Uniq(arr, engine) ==
    LET kept == Distinct(SelectTruthy(arr)) IN
    ArraySort(kept, [x, y \in Elements(kept) |-> SortCompare(x, y)], engine)

\* places.map((p) => p[field])
MapField(ps, field) == [i \in 1..Len(ps) |-> Get(ps[i], field)]

\* places.flatMap((p) => p[field] || []): an array is spread into the
\* result, any other value is one element of it
RECURSIVE FlatMapField(_, _)
FlatMapField(ps, field) ==
    IF ps = <<>> THEN <<>>
    ELSE LET v == Or(Get(Head(ps), field), Arr(<<>>)) IN
         (IF v.t = "array" THEN v.a ELSE <<v>>) \o FlatMapField(Tail(ps), field)

Facets(ps, engine) ==
    [cities |-> Uniq(MapField(ps, "city"), engine),
     hoods |-> Uniq(MapField(ps, "neighborhood"), engine),
     cuisines |-> Uniq(FlatMapField(ps, "cuisine"), engine),
     tags |-> Uniq(FlatMapField(ps, "tags"), engine)]

facets(engine) == Facets(places, engine)

\* ---------------------------------------------------------------- inputs

\* The number of user events a behaviour holds
MaxEvents == 3

GreatBroth == Str(<<"G", "r", "e", "a", "t", " ", "b", "r", "o", "t", "h">>)
DateNight == Str(<<"d", "a", "t", "e", "-", "n", "i", "g", "h", "t">>)
LateNight == Str(<<"l", "a", "t", "e", "-", "n", "i", "g", "h", "t">>)
Seattle == Str(<<"S", "e", "a">>)
Bellevue == Str(<<"B", "e", "l">>)
Ramen == Str(<<"r", "a", "m", "e", "n">>)

\* Records of data/Places.json: a fully described place, and one that has
\* only a name, a city, a rating and a price
PlaceA ==
    Obj([id |-> Str(<<"a">>), name |-> Str(<<"R", "a", "m", "e", "n">>),
         address |-> Str(<<"1", " ", "S", "t">>),
         lat |-> Num(476), lon |-> Num(-1223),
         city |-> Seattle, neighborhood |-> Str(<<"B", "a", "l">>),
         cuisine |-> Arr(<<Ramen>>), tags |-> Arr(<<DateNight>>),
         rating |-> Num(45), price |-> Num(20), wouldReturn |-> Bool(TRUE),
         notes |-> EmptyStr, photo |-> Null, website |-> Null,
         visitedAt |-> Str(<<"2", "4", "-", "0", "3">>)])

PlaceB ==
    Obj([id |-> Str(<<"b">>), name |-> Str(<<"T", "a", "c", "o">>),
         city |-> Bellevue, rating |-> Num(30), price |-> Num(10)])

Dataset == <<PlaceA, PlaceB>>

\* What the browser may hold under EDITS_KEY when the page loads
StoredNull == JsonText(Null)
StoredNumber == JsonText(Num(50))
StoredArray == JsonText(Arr(<<Obj([rating |-> Num(10)])>>))
StoredNonPatch == JsonText(Obj([a |-> Num(50)]))
StoredRatingB == JsonText(Obj([b |-> Obj([rating |-> Num(48)])]))
StoredTwoPatches ==
    JsonText(Obj([a |-> Obj([rating |-> Null, visitedAt |-> Str(<<"2", "5">>)]),
                  b |-> Obj([rating |-> Num(48)])]))
StoredNameA == JsonText(Obj([a |-> Obj([name |-> Str(<<"X">>), lat |-> Null])]))
StoredStars == JsonText(Obj([b |-> Obj([stars |-> Num(50)])]))
StoredTextRating == JsonText(Obj([a |-> Obj([rating |-> Str(<<"x">>)])]))
StoredFacets ==
    JsonText(Obj([b |-> Obj([city |-> EmptyStr, neighborhood |-> Str(<<"B", "a", "l">>),
                             tags |-> Arr(<<LateNight, DateNight>>)])]))
StoredNumberCuisine == JsonText(Obj([b |-> Obj([cuisine |-> Num(50)])]))

PersistedContents ==
    {Absent, EmptyText, Garbage, StoredNull, StoredNumber, StoredArray,
     StoredNonPatch, StoredRatingB, StoredTwoPatches, StoredNameA, StoredStars,
     StoredTextRating}

\* The query strings the page is opened with
UrlRamen == [k \in {"cuisine"} |-> Ramen.s]
UrlSeattleFour ==
    [k \in {"city", "minRating"} |-> IF k = "city" THEN Seattle.s ELSE <<"4">>]
UrlNearest == [k \in {"sort"} |-> SortNearest.s]

\* The browsing contexts the page is opened in: how storage behaves, what it
\* holds, and the query string
Environments ==
    [mode : {"ok"}, item : PersistedContents, sp : {NoParams}]
    \cup [mode : {"full"}, item : {Garbage, StoredRatingB, StoredTwoPatches},
          sp : {NoParams}]
    \cup [mode : {"blocked"}, item : {StoredRatingB}, sp : {NoParams}]
    \cup [mode : {"ok"}, item : {StoredFacets}, sp : {NoParams}]
    \cup [mode : {"ok"}, item : {StoredNumberCuisine, StoredRatingB},
          sp : {UrlRamen}]
    \cup [mode : {"ok"}, item : {Absent, StoredRatingB, StoredNameA},
          sp : {UrlSeattleFour}]
    \cup [mode : {"ok", "full"}, item : {StoredRatingB, StoredTwoPatches},
          sp : {UrlNearest}]

\* Records of data/Places.json for the sort stage: two places with the same
\* name, rating and visit date at different distances, a place rated 0, a
\* place without rating and coordinates, one whose coordinates are text, and
\* one whose latitude is null
Bao == Str(<<"B", "a", "o">>)
VisitedMarch == Str(<<"2", "4", "-", "0", "3">>)
VisitedLater == Str(<<"2", "5">>)

BaoNear ==
    Obj([id |-> Str(<<"c", "1">>), name |-> Bao, rating |-> Num(45),
         lat |-> Num(476), lon |-> Num(-1223), visitedAt |-> VisitedMarch])
BaoFar ==
    Obj([id |-> Str(<<"c", "2">>), name |-> Bao, rating |-> Num(45),
         lat |-> Num(477), lon |-> Num(-1223), visitedAt |-> VisitedMarch])
ZeroRated ==
    Obj([id |-> Str(<<"c", "3">>), name |-> Str(<<"T", "a", "c", "o">>),
         rating |-> Num(0), lat |-> Num(476), lon |-> Num(-1222)])
NoCoords ==
    Obj([id |-> Str(<<"c", "4">>), name |-> Str(<<"R", "a", "m", "e", "n">>),
         visitedAt |-> VisitedLater])
TextCoords ==
    Obj([id |-> Str(<<"c", "5">>), rating |-> Null, lat |-> Str(<<"x">>),
         lon |-> Str(<<"y">>), visitedAt |-> VisitedLater])
NullLat ==
    Obj([id |-> Str(<<"c", "6">>), name |-> Str(<<"b", "a", "o">>),
         rating |-> Num(30), lat |-> Null, lon |-> Num(-1223)])

SortDatasets ==
    {<<BaoFar, ZeroRated, BaoNear>>,
     <<NoCoords, BaoFar, TextCoords, BaoNear, ZeroRated>>,
     <<TextCoords, NoCoords, BaoNear>>,
     <<NoCoords, NullLat, BaoNear, BaoFar>>,
     <<BaoNear, BaoFar, NoCoords, ZeroRated>>,
     <<ZeroRated, NoCoords>>,
     <<NullLat, BaoFar>>,
     <<BaoNear>>}

SortLinks ==
    {NoParams} \cup {[k \in {"sort"} |-> v.s] : v \in {SortName, SortRecent, SortNearest}}
    \cup {[k \in {"sort", "minRating"} |->
              IF k = "sort" THEN SortNearest.s ELSE <<"4">>]}

\* What the edit form's inputs deliver (e.target.value, e.target.checked)
RatingInputs == {EmptyStr, Str(<<"4", ".", "8">>)}
PriceInputs == {Str(<<"1">>)}
NotesInputs == {GreatBroth}
PhotoInputs == {Str(<<"u">>)}

\* ---------------------------------------------------------------- render

\* Whether rendering with this state throws
RenderThrows(base, e, Q) == Filtered(Places(base, e), Q).threw

WriteLabel(saved) == IF saved.failed THEN "failed" ELSE "ok"

\* ---------------------------------------------------------------- load

\* The first render and its mount effects: loadEdits and parseUrlState give
\* the initial state, then saveEdits(edits) and writeUrlState(...) run.
Mounted(base, mode, item, sp) ==
    LET loaded == LoadEdits(mode, item)
        s == ParseUrlState(sp)
        saved == SaveEdits(mode, item, loaded.v)
    IN [basePlaces |-> base, storageMode |-> mode, storage |-> saved.item,
        url |-> WriteUrlState(s), edits |-> loaded.v, query |-> s,
        crashed |-> loaded.threw \/ saved.threw \/ RenderThrows(base, loaded.v, s),
        lastOp |-> [op |-> "load", wrote |-> WriteLabel(saved), read |-> item]]

\* One more user event
Event ==
    /\ events < MaxEvents
    /\ events' = events + 1

\* Every query setter called with the fields of s
SetQuery(s) ==
    /\ q' = s.q
    /\ city' = s.city
    /\ cuisine' = s.cuisine
    /\ neighborhood' = s.neighborhood
    /\ tag' = s.tag
    /\ minRating' = s.minRating
    /\ price' = s.price
    /\ wouldReturn' = s.wouldReturn
    /\ sort' = s.sort

IsMounted(m) ==
    /\ basePlaces = m.basePlaces
    /\ storageMode = m.storageMode
    /\ storage = m.storage
    /\ url = m.url
    /\ edits = m.edits
    /\ q = m.query.q
    /\ city = m.query.city
    /\ cuisine = m.query.cuisine
    /\ neighborhood = m.query.neighborhood
    /\ tag = m.query.tag
    /\ minRating = m.query.minRating
    /\ price = m.query.price
    /\ wouldReturn = m.query.wouldReturn
    /\ sort = m.query.sort
    /\ selectedId = Null
    /\ menuOpen = FALSE
    /\ menuTab = "aboutMap"
    /\ myLoc = Null
    /\ locErr = EmptyStr
    /\ pending = {}
    /\ issued = 0
    /\ editingId = Null
    /\ draft = Null
    /\ crashed = m.crashed
    /\ events = 0
    /\ lastOp = m.lastOp

Init ==
    /\ geolocation = TRUE
    /\ \E env \in Environments :
            IsMounted(Mounted(Dataset, env.mode, env.item, env.sp))

\* The user reloads the page: every useState starts over from storage and
\* the query string
Reload ==
    LET m == Mounted(basePlaces, storageMode, storage, url) IN
    /\ Event
    /\ storage' = m.storage
    /\ url' = m.url
    /\ edits' = m.edits
    /\ SetQuery(m.query)
    /\ selectedId' = Null
    /\ menuOpen' = FALSE
    /\ menuTab' = "aboutMap"
    /\ myLoc' = Null
    /\ locErr' = EmptyStr
    /\ pending' = {}
    /\ issued' = 0
    /\ editingId' = Null
    /\ draft' = Null
    /\ crashed' = m.crashed
    /\ lastOp' = m.lastOp
    /\ UNCHANGED <<basePlaces, geolocation, storageMode>>

\* ---------------------------------------------------------------- editing

\* The places the list shows: each has an Edit button, and the one being
\* edited shows the form
Listed == IF filtered.threw THEN <<>> ELSE filtered.v

FormShown ==
    \E i \in 1..Len(Listed) : StrictEq(editingId, Get(Listed[i], "id"))

StartEdit(p) ==
    /\ ~crashed
    /\ Event
    /\ ~StrictEq(editingId, Get(p, "id"))
    /\ editingId' = Get(p, "id")
    /\ draft' = Obj([rating |-> Coalesce(Get(p, "rating"), EmptyStr),
                     price |-> Coalesce(Get(p, "price"), EmptyStr),
                     wouldReturn |-> Coalesce(Get(p, "wouldReturn"), Bool(FALSE)),
                     notes |-> Coalesce(Get(p, "notes"), EmptyStr),
                     photo |-> Coalesce(Get(p, "photo"), EmptyStr)])
    /\ selectedId' = Get(p, "id")
    /\ lastOp' = [op |-> "startEdit", wrote |-> "none"]
    /\ UNCHANGED <<basePlaces, geolocation, storageMode, storage, url, edits, queryVars,
                   menuOpen, menuTab, myLoc, locErr, pending, issued, crashed>>

\* cancelEdit that forgets the place and keeps the draft
CancelEditKeepsDraft ==
    /\ ~crashed
    /\ Event
    /\ FormShown
    /\ editingId' = Null
    /\ lastOp' = [op |-> "cancelEdit", wrote |-> "none"]
    /\ UNCHANGED <<basePlaces, geolocation, storageMode, storage, url, edits,
                   queryVars, selectedId, menuOpen, menuTab, myLoc, locErr,
                   pending, issued, draft, crashed>>

CancelEdit ==
    /\ ~crashed
    /\ Event
    /\ FormShown
    /\ editingId' = Null
    /\ draft' = Null
    /\ lastOp' = [op |-> "cancelEdit", wrote |-> "none"]
    /\ UNCHANGED <<basePlaces, geolocation, storageMode, storage, url, edits, queryVars,
                   selectedId, menuOpen, menuTab, myLoc, locErr, pending, issued, crashed>>

\* setDraft((d) => ({ ...(d || {}), [field]: value }))
SetDraft(field, value) ==
    /\ ~crashed
    /\ Event
    /\ FormShown
    /\ draft' = With(Or(draft, EmptyObj), field, value)
    /\ draft' # draft
    /\ lastOp' = [op |-> "setDraft", wrote |-> "none"]
    /\ UNCHANGED <<basePlaces, geolocation, storageMode, storage, url, edits, queryVars,
                   selectedId, menuOpen, menuTab, myLoc, locErr, pending, issued, editingId, crashed>>

SetDraftRating == \E v \in RatingInputs : SetDraft("rating", v)
SetDraftPrice == \E v \in PriceInputs : SetDraft("price", v)
SetDraftWouldReturn == \E b \in BOOLEAN : SetDraft("wouldReturn", Bool(b))
SetDraftPhoto == \E v \in PhotoInputs : SetDraft("photo", v)
SetDraftNotes == \E v \in NotesInputs : SetDraft("notes", v)

FieldNumUnchecked(v) ==
    IF StrictEq(v, EmptyStr) THEN Null ELSE ToNumber(v)

\* ratingNum and priceNum of saveEdit
FieldNum(v) ==
    IF StrictEq(v, EmptyStr) THEN Null
    ELSE IF NumberIsFinite(ToNumber(v)) THEN ToNumber(v)
    ELSE Null

\* patch of saveEdit
DraftPatch(d) ==
    Obj([rating |-> FieldNum(Get(d, "rating")),
         price |-> FieldNum(Get(d, "price")),
         wouldReturn |-> Bool(Truthy(Get(d, "wouldReturn"))),
         notes |-> Or(Get(d, "notes"), EmptyStr),
         photo |-> Or(Get(d, "photo"), Null)])

\* The updater storing the new patch in place of the old one:
\* { ...(prev || {}), [id]: patch }
ApplyPatchReplaces(prev, id, patch) ==
    With(Or(prev, EmptyObj), ToKey(id.s), patch)

\* The updater saveEdit hands to setEdits
ApplyPatch(prev, id, patch) ==
    LET e == Or(prev, EmptyObj)
        key == ToKey(id.s)
    IN With(e, key, Spread(Or(Get(e, key), EmptyObj), patch))

\* saveEdit(id), then the effect saveEdits(edits) of the render it causes
SaveEdit(id) ==
    /\ ~crashed
    /\ Event
    /\ FormShown
    /\ StrictEq(editingId, id)
    /\ IF ~Truthy(draft)
       THEN /\ lastOp' = [op |-> "saveEdit", wrote |-> "none", draft |-> draft]
            /\ UNCHANGED <<storage, edits, editingId, draft, crashed>>
       ELSE LET next == ApplyPatch(edits, id, DraftPatch(draft))
                saved == SaveEdits(storageMode, storage, next)
            IN /\ edits' = next
               /\ storage' = saved.item
               /\ editingId' = Null
               /\ draft' = Null
               /\ crashed' = (saved.threw \/ RenderThrows(basePlaces, next, Query))
               /\ lastOp' = [op |-> "saveEdit", wrote |-> WriteLabel(saved),
                             draft |-> draft]
    /\ UNCHANGED <<basePlaces, geolocation, storageMode, url, queryVars, selectedId, menuOpen, menuTab,
                   myLoc, locErr, pending, issued>>

\* clearLocalEdits that removes the stored item and leaves the state alone
ClearLocalEditsStorageOnly ==
    /\ ~crashed
    /\ Event
    /\ storage' = IF storageMode = "ok" THEN Absent ELSE storage
    /\ lastOp' = [op |-> "clearLocalEdits", wrote |-> "none"]
    /\ UNCHANGED <<basePlaces, geolocation, storageMode, url, edits, queryVars, selectedId,
                   menuOpen, menuTab, myLoc, locErr, pending, issued, editingId, draft, crashed>>

\* clearLocalEdits that forgets the location along with the edits
ClearLocalEditsAndLocation ==
    /\ ~crashed
    /\ Event
    /\ LET saved == SaveEdits(storageMode, storage, EmptyObj)
       IN /\ edits' = EmptyObj
          /\ storage' = saved.item
          /\ crashed' = (saved.threw \/ RenderThrows(basePlaces, EmptyObj, Query))
          /\ lastOp' = [op |-> "clearLocalEdits", wrote |-> WriteLabel(saved)]
    /\ myLoc' = Null
    /\ locErr' = EmptyStr
    /\ UNCHANGED <<basePlaces, geolocation, storageMode, url, queryVars, selectedId, menuOpen, menuTab,
                   pending, issued, editingId, draft>>

\* clearLocalEdits(), then the effect saveEdits(edits)
ClearLocalEdits ==
    /\ ~crashed
    /\ Event
    /\ LET saved == SaveEdits(storageMode, storage, EmptyObj)
       IN /\ edits' = EmptyObj
          /\ storage' = saved.item
          /\ crashed' = (saved.threw \/ RenderThrows(basePlaces, EmptyObj, Query))
          /\ lastOp' = [op |-> "clearLocalEdits", wrote |-> WriteLabel(saved)]
    /\ UNCHANGED <<basePlaces, geolocation, storageMode, url, queryVars, selectedId, menuOpen, menuTab,
                   myLoc, locErr, pending, issued, editingId, draft>>

\* merged of exportPlaces
ExportMerged(base, e) ==
    [i \in 1..Len(base) |->
        LET patch == Get(e, ToKey(Get(base[i], "id").s)) IN
        IF Truthy(patch) THEN Spread(base[i], patch) ELSE base[i]]

\* downloadJSON: the text of the file the browser saves
DownloadJSON(obj) == JsonStringify(obj)

\* exportPlaces(), the Export JSON button
ExportPlaces ==
    /\ ~crashed
    /\ Event
    /\ lastOp' = [op |-> "exportPlaces", wrote |-> "none",
                  file |-> DownloadJSON(Arr(ExportMerged(basePlaces, edits)))]
    /\ UNCHANGED <<basePlaces, geolocation, storageMode, storage, url, edits, queryVars,
                   selectedId, menuOpen, menuTab, myLoc, locErr, pending, issued,
                   editingId, draft, crashed>>

\* ---------------------------------------------------------------- location

\* What the browser answers a position request with
PositionFixes ==
    {Obj([lat |-> Num(476), lon |-> Num(-1223)]),
     Obj([lat |-> Num(477), lon |-> Num(-1223)])}
PositionErrors == {Str(<<"d", "e", "n", "i", "e", "d">>), EmptyStr}
CouldNotGetLocation == Str(<<"C", "o", "u", "l", "d", " ", "n", "o", "t">>)

\* The button under the filters, shown while sort === "nearest"
LocationButtonShown == StrictEq(sort, SortNearest)

NextRequest == issued + 1

\* The messages of requestLocation
NotSupported ==
    Str(<<"N", "o", "t", " ", "s", "u", "p", "p", "o", "r", "t", "e", "d">>)
Using == Str(<<"U", "s", "i", "n", "g">>)

\* requestLocation() where navigator.geolocation exists
RequestLocation ==
    /\ ~crashed
    /\ Event
    /\ LocationButtonShown
    /\ Truthy(Bool(geolocation))
    /\ locErr' = EmptyStr
    /\ pending' = pending \cup {NextRequest}
    /\ issued' = NextRequest
    /\ lastOp' = [op |-> "requestLocation", wrote |-> "none"]
    /\ UNCHANGED <<basePlaces, geolocation, storageMode, storage, url, edits,
                   queryVars, selectedId, menuOpen, menuTab, myLoc, editingId,
                   draft, crashed>>

\* requestLocation() where navigator.geolocation does not exist
RequestLocationUnsupported ==
    /\ ~crashed
    /\ Event
    /\ LocationButtonShown
    /\ ~Truthy(Bool(geolocation))
    /\ locErr' = NotSupported
    /\ lastOp' = [op |-> "requestLocation", wrote |-> "none",
                  toast |-> NotSupported]
    /\ UNCHANGED <<basePlaces, geolocation, storageMode, storage, url, edits,
                   queryVars, selectedId, menuOpen, menuTab, myLoc, pending,
                   issued, editingId, draft, crashed>>

\* The success callback of a pending request
LocationFound(n, pos) ==
    /\ ~crashed
    /\ n \in pending
    /\ pending' = pending \ {n}
    /\ myLoc' = Obj([lat |-> Get(pos, "lat"), lon |-> Get(pos, "lon")])
    /\ lastOp' = [op |-> "locationFound", wrote |-> "none", request |-> n,
                  answer |-> pos, toast |-> Using]
    /\ UNCHANGED <<basePlaces, geolocation, storageMode, storage, url, edits,
                   queryVars, selectedId, menuOpen, menuTab, locErr, issued,
                   editingId, draft, crashed, events>>

LocationFailedBareMessage(n, message) ==
    /\ ~crashed
    /\ n \in pending
    /\ pending' = pending \ {n}
    /\ locErr' = message
    /\ lastOp' = [op |-> "locationFailed", wrote |-> "none", request |-> n,
                  answer |-> message, toast |-> message]
    /\ UNCHANGED <<basePlaces, geolocation, storageMode, storage, url, edits,
                   queryVars, selectedId, menuOpen, menuTab, myLoc, issued,
                   editingId, draft, crashed, events>>

\* The error callback of a pending request
LocationFailed(n, message) ==
    /\ ~crashed
    /\ n \in pending
    /\ pending' = pending \ {n}
    /\ locErr' = Or(message, CouldNotGetLocation)
    /\ lastOp' = [op |-> "locationFailed", wrote |-> "none", request |-> n,
                  answer |-> message, toast |-> Or(message, CouldNotGetLocation)]
    /\ UNCHANGED <<basePlaces, geolocation, storageMode, storage, url, edits,
                   queryVars, selectedId, menuOpen, menuTab, myLoc, issued,
                   editingId, draft, crashed, events>>

Next ==
    \/ Reload
    \/ \E i \in 1..Len(Listed) : StartEdit(Listed[i])
    \/ CancelEdit
    \/ SetDraftRating
    \/ SetDraftPrice
    \/ SetDraftWouldReturn
    \/ SetDraftPhoto
    \/ SetDraftNotes
    \/ \E i \in 1..Len(Listed) : SaveEdit(Get(Listed[i], "id"))
    \/ ClearLocalEdits
    \/ ExportPlaces
    \/ RequestLocation
    \/ \E n \in pending, pos \in PositionFixes : LocationFound(n, pos)
    \/ \E n \in pending, message \in PositionErrors : LocationFailed(n, message)

Spec == Init /\ [][Next]_vars

\* ---------------------------------------------------------------- sorting

\* The page opened on a dataset under each sort strategy; under "nearest"
\* the user asks for their location
InitSort ==
    /\ geolocation \in BOOLEAN
    /\ \E base \in SortDatasets, sp \in SortLinks :
            IsMounted(Mounted(base, "ok", Absent, sp))

NextSort ==
    \/ RequestLocation
    \/ RequestLocationUnsupported
    \/ \E n \in pending, pos \in PositionFixes : LocationFound(n, pos)
    \/ \E n \in pending, message \in PositionErrors : LocationFailed(n, message)

SpecSort == InitSort /\ [][NextSort]_vars

\* ---------------------------------------------------------------- query

\* The values a facet <select> offers besides "": the truthy values of a
\* field, or of the elements of an array field, over places
FieldValues(ps, field) ==
    {v \in {Get(ps[i], field) : i \in 1..Len(ps)} : Truthy(v)}

ElementValues(ps, field) ==
    {v \in UNION {IF Get(ps[i], field).t = "array"
                  THEN {Get(ps[i], field).a[j] : j \in 1..Len(Get(ps[i], field).a)}
                  ELSE {} : i \in 1..Len(ps)} : Truthy(v)}

\* What the search box and the fixed <select>s deliver
QInputs ==
    {EmptyStr, Str(<<" ", "R", "A", " ">>), Str(<<"n", " ", "1">>)}
PriceOptions == {Num(0), Num(10), Num(20)}
MinRatingOptions == {Num(0), Num(40), Num(45)}
SortOptions == {SortTop, SortRecent, SortName, SortNearest}

\* How many query controls the user changes after the page has loaded
MaxQueryChanges == 1

\* A control's onChange sets its field; the render that follows runs the
\* effect writeUrlState(...) over the new query
ChangeQuery(s, op) ==
    /\ ~crashed
    /\ events < MaxQueryChanges
    /\ events' = events + 1
    /\ s # Query
    /\ SetQuery(s)
    /\ url' = WriteUrlState(s)
    /\ crashed' = RenderThrows(basePlaces, edits, s)
    /\ lastOp' = [op |-> op, wrote |-> "none"]
    /\ UNCHANGED <<basePlaces, geolocation, storageMode, storage, edits, selectedId, menuOpen, menuTab,
                   myLoc, locErr, pending, issued, editingId, draft>>

SetQ == \E v \in QInputs : ChangeQuery([Query EXCEPT !.q = v], "setQ")
SetCity ==
    \E v \in {EmptyStr} \cup FieldValues(places, "city") :
        ChangeQuery([Query EXCEPT !.city = v], "setCity")
SetNeighborhood ==
    \E v \in {EmptyStr} \cup FieldValues(places, "neighborhood") :
        ChangeQuery([Query EXCEPT !.neighborhood = v], "setNeighborhood")
SetCuisine ==
    \E v \in {EmptyStr} \cup ElementValues(places, "cuisine") :
        ChangeQuery([Query EXCEPT !.cuisine = v], "setCuisine")
SetTag ==
    \E v \in {EmptyStr} \cup ElementValues(places, "tags") :
        ChangeQuery([Query EXCEPT !.tag = v], "setTag")
SetPrice ==
    \E v \in PriceOptions : ChangeQuery([Query EXCEPT !.price = v], "setPrice")
SetSort ==
    \E v \in SortOptions : ChangeQuery([Query EXCEPT !.sort = v], "setSort")
SetWouldReturn ==
    \E b \in BOOLEAN :
        ChangeQuery([Query EXCEPT !.wouldReturn = Bool(b)], "setWouldReturn")
SetMinRating ==
    \E v \in MinRatingOptions :
        ChangeQuery([Query EXCEPT !.minRating = v], "setMinRating")

\* The query strings of the links the page is opened with: every choice of
\* these parameters, each absent or holding one of its values
UrlChoices ==
    [q : {<<>>, <<" ", "R", "A", " ">>},
     city : {<<>>, Seattle.s},
     cuisine : {<<>>, Ramen.s},
     minRating : {<<>>, <<"4">>, <<"x">>},
     price : {<<>>, <<"2">>, <<"-", "1">>},
     return : {<<>>, <<"1">>}]

\* The parameters a choice sets (an empty value stands for an absent one)
UrlOf(c) == [k \in {j \in DOMAIN c : c[j] # <<>>} |-> c[k]]

SharedLinks ==
    {UrlOf(c) : c \in UrlChoices}
    \cup {[k \in {"tag", "hood"} |-> IF k = "tag" THEN DateNight.s ELSE <<"B", "a", "l">>],
          [k \in {"sort", "tag"} |-> IF k = "sort" THEN SortName.s ELSE LateNight.s],
          [k \in {"sort"} |-> <<>>]}

QueryOverlays ==
    {Absent,
     JsonText(Obj([b |-> Obj([rating |-> Num(48), wouldReturn |-> Bool(TRUE),
                              notes |-> Str(<<"R", "a", "r", "e">>)])])),
     JsonText(Obj([a |-> Obj([rating |-> Null, price |-> Null])]))}

InitQuery ==
    /\ geolocation = TRUE
    /\ \E item \in QueryOverlays, sp \in SharedLinks :
            IsMounted(Mounted(Dataset, "ok", item, sp))

NextQuery ==
    \/ SetQ
    \/ SetCity
    \/ SetNeighborhood
    \/ SetCuisine
    \/ SetTag
    \/ SetPrice
    \/ SetSort
    \/ SetWouldReturn
    \/ SetMinRating

SpecQuery == InitQuery /\ [][NextQuery]_vars

\* ---------------------------------------------------------------- menu, history

\* The places the browser's history can return the page to
HistoryLinks ==
    {NoParams, UrlSeattleFour, UrlNearest,
     [k \in {"sort"} |-> SortTop.s],
     [k \in {"price", "tag"} |-> IF k = "price" THEN <<"-", "1">> ELSE DateNight.s]}

\* Handlers that call every query setter with the fields of s: the render
\* that follows runs the effect writeUrlState(...) if a field changed
QueryBecomes(s) ==
    /\ SetQuery(s)
    /\ url' = IF s # Query THEN WriteUrlState(s) ELSE url
    /\ crashed' = RenderThrows(basePlaces, edits, s)

\* clearFilters without setSelectedId(null)
ClearFiltersKeepsSelection ==
    /\ ~crashed
    /\ ~menuOpen
    /\ Event
    /\ QueryBecomes([q |-> EmptyStr, city |-> EmptyStr, cuisine |-> EmptyStr,
                     neighborhood |-> EmptyStr, tag |-> EmptyStr,
                     minRating |-> Num(0), price |-> Num(0),
                     wouldReturn |-> Bool(FALSE), sort |-> SortTop])
    /\ lastOp' = [op |-> "clearFilters", wrote |-> "none"]
    /\ UNCHANGED <<basePlaces, geolocation, storageMode, storage, edits,
                   selectedId, menuOpen, menuTab, myLoc, locErr, pending, issued,
                   editingId, draft>>

\* clearFilters(), the button next to the search box
ClearFilters ==
    /\ ~crashed
    /\ ~menuOpen
    /\ Event
    /\ QueryBecomes([q |-> EmptyStr, city |-> EmptyStr, cuisine |-> EmptyStr,
                     neighborhood |-> EmptyStr, tag |-> EmptyStr,
                     minRating |-> Num(0), price |-> Num(0),
                     wouldReturn |-> Bool(FALSE), sort |-> SortTop])
    /\ selectedId' = Null
    /\ lastOp' = [op |-> "clearFilters", wrote |-> "none"]
    /\ UNCHANGED <<basePlaces, geolocation, storageMode, storage, edits, menuOpen, menuTab,
                   myLoc, locErr, pending, issued, editingId, draft>>

\* The hamburger button
OpenMenu ==
    /\ ~crashed
    /\ ~menuOpen
    /\ Event
    /\ menuOpen' = TRUE
    /\ menuTab' = "aboutMap"
    /\ lastOp' = [op |-> "openMenu", wrote |-> "none"]
    /\ UNCHANGED <<basePlaces, geolocation, storageMode, storage, url, edits, queryVars,
                   selectedId, myLoc, locErr, pending, issued, editingId, draft,
                   crashed>>

\* A tab button of the menu
MenuTabs == {"aboutMap", "featured", "stats"}

SetMenuTab(key) ==
    /\ ~crashed
    /\ menuOpen
    /\ key # menuTab
    /\ Event
    /\ menuTab' = key
    /\ lastOp' = [op |-> "setMenuTab", wrote |-> "none"]
    /\ UNCHANGED <<basePlaces, geolocation, storageMode, storage, url, edits, queryVars,
                   selectedId, menuOpen, myLoc, locErr, pending, issued,
                   editingId, draft, crashed>>

\* The Close button of the menu
CloseMenu ==
    /\ ~crashed
    /\ menuOpen
    /\ Event
    /\ menuOpen' = FALSE
    /\ lastOp' = [op |-> "closeMenu", wrote |-> "none"]
    /\ UNCHANGED <<basePlaces, geolocation, storageMode, storage, url, edits, queryVars,
                   selectedId, menuTab, myLoc, locErr, pending, issued,
                   editingId, draft, crashed>>

\* The buttons of the Featured tab
FeaturedKeys == {"top", "recent", "date-night", "late-night", "cheap"}

\* applyFeatured where only the recent view sets the sort
FeaturedQueryKeepsSort(which) ==
    LET reset == [Query EXCEPT !.city = EmptyStr, !.neighborhood = EmptyStr,
                               !.cuisine = EmptyStr, !.tag = EmptyStr,
                               !.price = Num(0), !.minRating = Num(0),
                               !.wouldReturn = Bool(FALSE), !.q = EmptyStr]
    IN CASE which = "top" -> [reset EXCEPT !.minRating = Num(45)]
         [] which = "date-night" -> [reset EXCEPT !.tag = DateNight]
         [] which = "late-night" -> [reset EXCEPT !.tag = LateNight]
         [] which = "cheap" -> [reset EXCEPT !.price = Num(10)]
         [] which = "recent" -> [reset EXCEPT !.sort = SortRecent]
         [] OTHER -> reset

\* The query applyFeatured(which) leaves: the filters reset, then the
\* settings of the feature
FeaturedQuery(which) ==
    LET reset == [Query EXCEPT !.city = EmptyStr, !.neighborhood = EmptyStr,
                               !.cuisine = EmptyStr, !.tag = EmptyStr,
                               !.price = Num(0), !.minRating = Num(0),
                               !.wouldReturn = Bool(FALSE), !.q = EmptyStr]
    IN CASE which = "top" -> [reset EXCEPT !.sort = SortTop, !.minRating = Num(45)]
         [] which = "date-night" -> [reset EXCEPT !.sort = SortTop, !.tag = DateNight]
         [] which = "late-night" -> [reset EXCEPT !.sort = SortTop, !.tag = LateNight]
         [] which = "cheap" -> [reset EXCEPT !.sort = SortTop, !.price = Num(10)]
         [] which = "recent" -> [reset EXCEPT !.sort = SortRecent]
         [] OTHER -> reset

ApplyFeatured(which) ==
    /\ ~crashed
    /\ menuOpen
    /\ menuTab = "featured"
    /\ Event
    /\ menuOpen' = FALSE
    /\ QueryBecomes(FeaturedQuery(which))
    /\ lastOp' = [op |-> "applyFeatured", wrote |-> "none", which |-> which]
    /\ UNCHANGED <<basePlaces, geolocation, storageMode, storage, edits, selectedId, menuTab,
                   myLoc, locErr, pending, issued, editingId, draft>>

\* onPop with every setter but setSort
PopStateKeepsSort(sp) ==
    /\ ~crashed
    /\ Event
    /\ QueryBecomes([ParseUrlState(sp) EXCEPT !.sort = sort])
    /\ lastOp' = [op |-> "popstate", wrote |-> "none", search |-> sp]
    /\ UNCHANGED <<basePlaces, geolocation, storageMode, storage, edits, selectedId, menuOpen,
                   menuTab, myLoc, locErr, pending, issued, editingId, draft>>

\* The browser went to the history entry whose query string is sp and
\* fired popstate: onPop, then the render and its effect
PopState(sp) ==
    /\ ~crashed
    /\ Event
    /\ LET s == ParseUrlState(sp)
       IN /\ SetQuery(s)
          /\ url' = IF s # Query THEN WriteUrlState(s) ELSE sp
          /\ crashed' = RenderThrows(basePlaces, edits, s)
    /\ lastOp' = [op |-> "popstate", wrote |-> "none", search |-> sp]
    /\ UNCHANGED <<basePlaces, geolocation, storageMode, storage, edits, selectedId, menuOpen,
                   menuTab, myLoc, locErr, pending, issued, editingId, draft>>

InitUrl ==
    /\ geolocation = TRUE
    /\ \E sp \in HistoryLinks : IsMounted(Mounted(Dataset, "ok", Absent, sp))

NextUrl ==
    \/ Reload
    \/ SetQ
    \/ SetCity
    \/ SetNeighborhood
    \/ SetCuisine
    \/ SetTag
    \/ SetPrice
    \/ SetSort
    \/ SetWouldReturn
    \/ SetMinRating
    \/ ClearFilters
    \/ OpenMenu
    \/ \E key \in MenuTabs : SetMenuTab(key)
    \/ CloseMenu
    \/ \E which \in FeaturedKeys : ApplyFeatured(which)
    \/ \E sp \in HistoryLinks : PopState(sp)

SpecUrl == InitUrl /\ [][NextUrl]_vars

\* ---------------------------------------------------------------- editing and filters

\* The query strings history traversal brings back while a place is edited
EditLinks == {NoParams, [k \in {"city"} |-> Bellevue.s]}

\* The page with its list, the edit form and the filters in use together
InitEdit ==
    /\ geolocation = TRUE
    /\ \E item \in {Absent, StoredRatingB}, sp \in {NoParams, UrlSeattleFour} :
            IsMounted(Mounted(Dataset, "ok", item, sp))

NextEdit ==
    \/ \E i \in 1..Len(Listed) : StartEdit(Listed[i])
    \/ CancelEdit
    \/ SetDraftRating
    \/ SetDraftNotes
    \/ \E i \in 1..Len(Listed) : SaveEdit(Get(Listed[i], "id"))
    \/ ClearLocalEdits
    \/ SetCity
    \/ ClearFilters
    \/ \E sp \in EditLinks : PopState(sp)

SpecEdit == InitEdit /\ [][NextEdit]_vars

\* ---------------------------------------------------------------- add-place script

\* The script appends to src/data/places.json, the array the page imports as
\* placesData.  In its records and in the geocoder's results coordinates
\* are held in ten-thousandths of a degree.

\* 0.0006 degrees
NearDistance == 6

Lowercase ==
    {"a", "b", "c", "d", "e", "f", "g", "h", "i", "j", "k", "l", "m",
     "n", "o", "p", "q", "r", "s", "t", "u", "v", "w", "x", "y", "z"}

\* .replace(/[^a-z0-9]+/g, "-")
RECURSIVE Dashed(_)
Dashed(s) ==
    IF s = <<>> THEN <<>>
    ELSE LET rest == Dashed(Tail(s)) IN
         IF Head(s) \in Lowercase \cup DigitChars THEN <<Head(s)>> \o rest
         ELSE IF rest # <<>> /\ Head(rest) = "-" THEN rest
         ELSE <<"-">> \o rest

\* .replace(/(^-|-$)/g, "")
Undashed(s) ==
    LET t == IF s # <<>> /\ Head(s) = "-" THEN Tail(s) ELSE s
    IN IF t # <<>> /\ t[Len(t)] = "-" THEN SubSeq(t, 1, Len(t) - 1) ELSE t

slugify(v) == Undashed(Dashed(ToLowerCase(ElementText(Or(v, EmptyStr)))))

\* (v || "").toLowerCase().trim()
FoldedName(v) == Trim(ToLowerCase(Or(v, EmptyStr).s))

\* Math.abs(a - b) < 0.0006
Close(a, b) ==
    /\ IsNum(a)
    /\ IsNum(b)
    /\ (IF a.n < b.n THEN b.n - a.n ELSE a.n - b.n) < NearDistance

\* isNearDuplicate comparing the names alone
IsNearDuplicateByName(existing, candidate) ==
    LET nameA == FoldedName(Get(candidate, "name")) IN
    \E i \in 1..Len(existing) :
        LET nameB == FoldedName(Get(existing[i], "name")) IN
        nameA # <<>> /\ nameB # <<>> /\ nameA = nameB

IsNearDuplicate(existing, candidate) ==
    LET nameA == FoldedName(Get(candidate, "name")) IN
    \E i \in 1..Len(existing) :
        LET p == existing[i]
            nameB == FoldedName(Get(p, "name"))
        IN /\ nameA # <<>>
           /\ nameB # <<>>
           /\ nameA = nameB
           /\ TypeOf(Get(p, "lat")) = "number"
           /\ TypeOf(Get(p, "lon")) = "number"
           /\ Close(Get(p, "lat"), Get(candidate, "lat"))
           /\ Close(Get(p, "lon"), Get(candidate, "lon"))

\* newPlace, for the geocoder result picked and the reading of Date.now()
NewPlace(pick, now) ==
    LET name == Or(Get(pick, "name"), Get(pick, "formatted")) IN
    Obj([id |-> Str(slugify(name) \o <<"-">> \o NatToString(now)),
         name |-> name,
         address |-> Get(pick, "formatted"),
         lat |-> Get(pick, "lat"),
         lon |-> Get(pick, "lon"),
         price |-> Null, rating |-> Null, wouldReturn |-> Null,
         notes |-> EmptyStr])

\* What the geocoder returns for the place asked for
SpotLat == Num(476000)
SpotLon == Num(-1223000)
Street == Str(<<"1", " ", "S", "t">>)
Picks ==
    {Obj([name |-> Bao, formatted |-> Street, lat |-> SpotLat, lon |-> SpotLon]),
     Obj([name |-> Bao, formatted |-> Street, lat |-> Num(476005),
          lon |-> Num(-1223005)]),
     Obj([name |-> Bao, formatted |-> Street, lat |-> Num(476007), lon |-> SpotLon]),
     Obj([name |-> Str(<<"T", "a", "c", "o">>), formatted |-> Street,
          lat |-> SpotLat, lon |-> SpotLon]),
     Obj([formatted |-> Street, lat |-> SpotLat, lon |-> SpotLon]),
     Obj([lat |-> SpotLat, lon |-> SpotLon])}

\* What src/data/places.json holds before the first run
TextLat == Str(<<"4", "7", ".", "6">>)
TextLon == Str(<<"-", "1", "2", "2", ".", "3">>)
DataFiles ==
    {<<>>,
     <<Obj([id |-> Str(<<"a">>), name |-> Str(<<"b", "a", "o", " ">>),
            lat |-> SpotLat, lon |-> SpotLon])>>,
     <<Obj([id |-> Str(<<"a">>), name |-> Bao, lat |-> TextLat, lon |-> TextLon])>>,
     <<Obj([id |-> Str(<<"a">>), name |-> EmptyStr, lat |-> SpotLat, lon |-> SpotLon]),
       Obj([id |-> Str(<<"b">>), name |-> Bao, lat |-> Null, lon |-> Null])>>}

\* One run of the script, from safeReadJSON to writeFileSync
AddPlace(pick) ==
    /\ Event
    /\ LET existing == basePlaces
           newPlace == NewPlace(pick, events + 1)
       IN IF IsNearDuplicate(existing, newPlace)
          THEN /\ basePlaces' = basePlaces
               /\ lastOp' = [op |-> "addPlace", wrote |-> "none",
                             candidate |-> newPlace]
          ELSE /\ basePlaces' = ToJson(Arr(Append(existing, newPlace))).a
               /\ lastOp' = [op |-> "addPlace", wrote |-> "ok",
                             candidate |-> newPlace]
    /\ UNCHANGED <<geolocation, storageMode, storage, url, edits, queryVars,
                   selectedId, menuOpen, menuTab, myLoc, locErr, pending, issued,
                   editingId, draft, crashed>>

InitAdd ==
    /\ geolocation = TRUE
    /\ \E file \in DataFiles : IsMounted(Mounted(file, "ok", Absent, NoParams))

NextAdd == \E pick \in Picks : AddPlace(pick)

SpecAdd == InitAdd /\ [][NextAdd]_vars

\* ---------------------------------------------------------------- C1, C2

\* The predicates of the filter stage, stated on their own
InResult(i) == \E j \in 1..Len(filtered.v) : filtered.v[j] = places[i]

PriceOf(p) == IF IsNum(Get(p, "price")) THEN Get(p, "price").n ELSE 0
RatingOf(p) == IF IsNum(Get(p, "rating")) THEN Get(p, "rating").n ELSE 0
Labels(p, field) ==
    IF Get(p, field).t = "array"
    THEN {Get(p, field).a[j] : j \in 1..Len(Get(p, field).a)}
    ELSE {}

CityHolds(p, Q) == Q.city = EmptyStr \/ Get(p, "city") = Q.city
NeighborhoodHolds(p, Q) ==
    Q.neighborhood = EmptyStr \/ Get(p, "neighborhood") = Q.neighborhood
CuisineHolds(p, Q) == Q.cuisine = EmptyStr \/ Q.cuisine \in Labels(p, "cuisine")
TagHolds(p, Q) == Q.tag = EmptyStr \/ Q.tag \in Labels(p, "tags")
WouldReturnHolds(p, Q) == Q.wouldReturn = Bool(FALSE) \/ Get(p, "wouldReturn") = Bool(TRUE)

\* The text fields of a place in order, the missing and empty ones omitted
TextFields(p) ==
    LET one(field) ==
            IF Get(p, field).t = "string" /\ Get(p, field).s # <<>>
            THEN <<Get(p, field).s>> ELSE <<>>
        many(field) ==
            IF Get(p, field).t = "array"
            THEN [j \in 1..Len(Get(p, field).a) |-> Get(p, field).a[j].s]
            ELSE <<>>
    IN one("name") \o one("address") \o one("city") \o one("neighborhood")
       \o many("cuisine") \o many("tags") \o one("notes")

\* term occurs in text at some offset
OccursIn(term, text) ==
    \E k \in 0..Len(text) :
        /\ k + Len(term) <= Len(text)
        /\ \A m \in 1..Len(term) : text[k + m] = term[m]

TextHolds(p, Q) ==
    OccursIn(ToLowerCase(Trim(Q.q.s)), ToLowerCase(JoinSpace(TextFields(p))))

\* As the claim words them: only 0 leaves price or minRating unconstrained
PriceHoldsAsClaimed(p, Q) ==
    Q.price = Num(0)
    \/ (IsNum(Get(p, "price")) /\ IsNum(Q.price) /\ Get(p, "price").n = Q.price.n)
RatingHoldsAsClaimed(p, Q) ==
    Q.minRating = Num(0) \/ (IsNum(Q.minRating) /\ RatingOf(p) >= Q.minRating.n)

\* As the code has them: a price or minRating that is not above 0 (0, a
\* negative number, not a number) leaves the field unconstrained
PriceHolds(p, Q) == ~(IsNum(Q.price) /\ Q.price.n > 0) \/ PriceOf(p) = Q.price.n
RatingHolds(p, Q) ==
    ~(IsNum(Q.minRating) /\ Q.minRating.n > 0) \/ RatingOf(p) >= Q.minRating.n

OtherPredicatesHold(p, Q) ==
    /\ CityHolds(p, Q)
    /\ NeighborhoodHolds(p, Q)
    /\ CuisineHolds(p, Q)
    /\ TagHolds(p, Q)
    /\ WouldReturnHolds(p, Q)
    /\ TextHolds(p, Q)

\* C1 as claimed: a place is in the filtered result iff it satisfies every
\* active predicate, where price and minRating are unconstrained exactly
\* when they are 0.
C1_FilterIffAsClaimed ==
    ~filtered.threw =>
        \A i \in 1..Len(places) :
            InResult(i) <=>
                /\ OtherPredicatesHold(places[i], Query)
                /\ PriceHoldsAsClaimed(places[i], Query)
                /\ RatingHoldsAsClaimed(places[i], Query)

\* C1 amended: a place is in the filtered result iff it satisfies every
\* active predicate, where price and minRating constrain only when they
\* are above 0.
C1_FilterIff ==
    ~filtered.threw =>
        \A i \in 1..Len(places) :
            InResult(i) <=>
                /\ OtherPredicatesHold(places[i], Query)
                /\ PriceHolds(places[i], Query)
                /\ RatingHolds(places[i], Query)

\* A search term, a price and a rating threshold are active together and
\* the filter keeps one place and drops the other.
C1_Witness ==
    /\ lastOp.op = "setQ"
    /\ ~filtered.threw
    /\ Len(filtered.v) = 1
    /\ SearchTerm(Query) # <<>>
    /\ Positive(Query.price)
    /\ Positive(Query.minRating)

\* The query with one constraint put back to its unconstrained value
Resets(Q) ==
    {[Q EXCEPT !.q = EmptyStr], [Q EXCEPT !.city = EmptyStr],
     [Q EXCEPT !.neighborhood = EmptyStr], [Q EXCEPT !.cuisine = EmptyStr],
     [Q EXCEPT !.tag = EmptyStr], [Q EXCEPT !.minRating = Num(0)],
     [Q EXCEPT !.price = Num(0)], [Q EXCEPT !.wouldReturn = Bool(FALSE)]}

ResultSet(Q) ==
    LET f == Filtered(places, Q) IN {f.v[j] : j \in 1..Len(f.v)}

\* C2: resetting any single constraint of the query to its unconstrained
\* value keeps every place of the filtered result in the result.
C2_ResetOnlyGrows ==
    \A R \in Resets(Query) : ResultSet(Query) \subseteq ResultSet(R)

\* Some reset strictly grows a result that was not empty.
C2_Witness ==
    /\ lastOp.op = "setCuisine"
    /\ ResultSet(Query) # {}
    /\ \E R \in Resets(Query) :
          R # Query /\ ResultSet(Query) # ResultSet(R)

\* ---------------------------------------------------------------- merge claims

\* The overlay entry of base place p, and whether it is a patch object
PatchOf(p) == Get(edits, ToKey(Get(p, "id").s))
HasPatch(p) == PatchOf(p).t = "object"
HasNoEntry(p) == ToKey(Get(p, "id").s) \notin DOMAIN OwnProps(edits)

\* C3: for a base place with an overlay patch, every field the patch carries
\* (an explicit null included) has the patch's value in the effective place
\* and every other field has the base value; a base place with no overlay
\* entry is passed through unchanged.
C3_PatchPrecedence ==
    /\ Len(places) = Len(basePlaces)
    /\ \A i \in 1..Len(basePlaces) :
          LET p == basePlaces[i]
              merged == places[i]
          IN /\ HasPatch(p) =>
                  /\ merged.t = "object"
                  /\ DOMAIN merged.o = DOMAIN p.o \cup DOMAIN PatchOf(p).o
                  /\ \A k \in DOMAIN PatchOf(p).o : merged.o[k] = PatchOf(p).o[k]
                  /\ \A k \in DOMAIN p.o \ DOMAIN PatchOf(p).o : merged.o[k] = p.o[k]
             /\ HasNoEntry(p) => merged = p

\* A saved edit whose empty rating field put an explicit null over the base
\* rating 4.5, next to a base place without an entry
C3_Witness ==
    /\ lastOp.op = "saveEdit"
    /\ HasPatch(basePlaces[1])
    /\ Get(PatchOf(basePlaces[1]), "rating") = Null
    /\ Get(basePlaces[1], "rating") = Num(45)
    /\ Get(places[1], "rating") = Null
    /\ Get(places[1], "name") = Get(basePlaces[1], "name")
    /\ HasNoEntry(basePlaces[2])

\* C4: in every reachable state each effective place has the identifier,
\* name and coordinates of its base place, and the effective list has the
\* length and identifier order of the base dataset.
C4_IdentityKept ==
    /\ Len(places) = Len(basePlaces)
    /\ \A i \in 1..Len(basePlaces) :
          \A k \in {"id", "name", "lat", "lon"} :
              Get(places[i], k) = Get(basePlaces[i], k)

\* C5: merging the base dataset with an empty overlay gives a list equal by
\* value to the base dataset, and so the effective list equals the base list
\* after clearLocalEdits.
C5_EmptyOverlayIsBase ==
    (edits = EmptyObj \/ lastOp.op = "clearLocalEdits") => places = basePlaces

\* clearLocalEdits ran where storage refuses writes: the stored item still
\* holds patches, the effective list is computed from the empty overlay
C5_Witness ==
    /\ lastOp.op = "clearLocalEdits"
    /\ lastOp.wrote = "failed"
    /\ edits = EmptyObj
    /\ storage = StoredTwoPatches

\* ---------------------------------------------------------------- overlay claims

\* C6: saveEdit merges its patch into the patch stored for the identifier,
\* the fields of the new patch winning, the other fields of the stored patch
\* kept, and the stored patches of all other identifiers unchanged.
C6_ApplyMerges ==
    [][(lastOp'.op = "saveEdit" /\ lastOp'.wrote # "none") =>
          LET key == ToKey(editingId.s)
              patch == DraftPatch(draft).o
              old == OwnProps(Get(edits, key))
              new == Get(edits', key)
          IN /\ new.t = "object"
             /\ DOMAIN new.o = DOMAIN old \cup DOMAIN patch
             /\ \A k \in DOMAIN patch : new.o[k] = patch[k]
             /\ \A k \in DOMAIN old \ DOMAIN patch : new.o[k] = old[k]
             /\ DOMAIN OwnProps(edits') = DOMAIN OwnProps(edits) \cup {key}
             /\ \A j \in DOMAIN OwnProps(edits) \ {key} :
                    Get(edits', j) = Get(edits, j)
      ]_vars

\* A saved edit of place a: the stored visitedAt the form does not carry is
\* still there next to the new notes, and the patch of place b is as stored
C6_Witness ==
    /\ lastOp.op = "saveEdit"
    /\ Get(Get(edits, "a"), "visitedAt") = Str(<<"2", "5">>)
    /\ Get(Get(edits, "a"), "notes") = GreatBroth
    /\ Get(edits, "b") = Obj([rating |-> Num(48)])

\* A stored text that is a JSON object whose every value is an object
IsPatchMapping(raw) ==
    /\ raw.kind = "json"
    /\ raw.doc.t = "object"
    /\ \A k \in DOMAIN raw.doc.o : raw.doc.o[k].t = "object"

\* C7: loading the overlay never raises and gives the empty mapping when
\* nothing is stored, when the read fails, and when the stored content does
\* not parse or parses to something that is not a mapping from place
\* identifier to patch object.
C7_LoadFailsOpen ==
    lastOp.op = "load" =>
        /\ ~crashed
        /\ (storageMode = "blocked" \/ ~IsPatchMapping(lastOp.read)) =>
               edits = EmptyObj

\* C8: when the write of the overlay fails, no error leaves the effect, the
\* in-memory overlay has the value that was being written and the effective
\* list is computed from it, and the stored item is what it was.
C8_FailedWriteIsDropped ==
    [][lastOp'.wrote = "failed" =>
          /\ ~crashed'
          /\ storage' = storage
          /\ lastOp'.op = "saveEdit" =>
                \A i \in 1..Len(basePlaces) :
                    StrictEq(Get(basePlaces[i], "id"), editingId) =>
                        \A k \in DOMAIN DraftPatch(draft).o :
                            Get(places'[i], k) = DraftPatch(draft).o[k]
          /\ lastOp'.op = "clearLocalEdits" =>
                edits' = EmptyObj /\ places' = basePlaces
      ]_vars

\* A saved edit whose write failed: the page shows the new notes and the
\* stored item does not have them
C8_Witness ==
    /\ lastOp.op = "saveEdit"
    /\ lastOp.wrote = "failed"
    /\ ~crashed
    /\ Get(places[1], "notes") = GreatBroth
    /\ storage = StoredTwoPatches

\* C9: where writes succeed, after every saveEdit and clearLocalEdits (and
\* after the load itself) the stored item decodes to exactly the in-memory
\* overlay, and a reload starts with the overlay the page had.
C9_PersistedMatches ==
    [][storageMode = "ok" =>
          /\ JsonParse(storage') = [threw |-> FALSE, v |-> edits']
          /\ lastOp'.op \in {"saveEdit", "clearLocalEdits"} =>
                LoadEdits(storageMode, storage').v = edits'
          /\ lastOp'.op = "load" => edits' = edits
      ]_vars

\* A reload after a saved edit: the overlay read back has the saved notes
C9_Witness ==
    /\ lastOp.op = "load"
    /\ lastOp.wrote = "ok"
    /\ events > 0
    /\ Get(Get(edits, "a"), "notes") = EmptyStr
    /\ Get(Get(edits, "a"), "wouldReturn") = Bool(TRUE)

\* C10: clearLocalEdits leaves the empty overlay whatever was stored, and
\* leaves the query state, the user location and the base dataset unchanged.
C10_ClearResetsOverlayOnly ==
    [][lastOp'.op = "clearLocalEdits" =>
          /\ edits' = EmptyObj
          /\ Query' = Query
          /\ myLoc' = myLoc
          /\ basePlaces' = basePlaces
      ]_vars

\* clearLocalEdits ran with two patches stored, a query that is not the
\* default one and a known user location
C10_Witness ==
    /\ lastOp.op = "clearLocalEdits"
    /\ edits = EmptyObj
    /\ storage = StoredTwoPatches
    /\ sort = SortNearest
    /\ myLoc = Obj([lat |-> Num(476), lon |-> Num(-1223)])

\* ---------------------------------------------------------------- sort claims

\* Where place x stands in the list a
IndexIn(a, x) == CHOOSE i \in 1..Len(a) : a[i] = x

\* out holds the places of arr, each once
IsReordering(out, arr) ==
    /\ Len(out) = Len(arr)
    /\ Elements(out) = Elements(arr)

\* The sort key of the top strategy as the specification words it: the
\* rating, or -1 for a rating that is absent or not a number (in tenths)
RatingKey(p) == IF IsNum(Get(p, "rating")) THEN Get(p, "rating").n ELSE -10

TopStrategy == sort \notin {SortName, SortRecent, SortNearest}

\* C11: under the top strategy the list is ordered by rating descending, an
\* absent or non-numeric rating counting as -1, so that every place with a
\* numeric rating (a rating of exactly 0 included) comes before every
\* unrated place, and places with equal rating keep their input order.
C11_TopOrder ==
    (TopStrategy /\ ~crashed) =>
        \A engine \in SortEngines :
            LET arr == filtered.v
                out == sorted(engine)
            IN /\ IsReordering(out, arr)
               /\ \A i, j \in 1..Len(arr) :
                     \/ RatingKey(arr[i]) > RatingKey(arr[j])
                     \/ (RatingKey(arr[i]) = RatingKey(arr[j]) /\ i < j)
                     => IndexIn(out, arr[i]) < IndexIn(out, arr[j])

\* Valid coordinates as the specification words them: a latitude and a
\* longitude that are numbers
ValidCoords(p) == IsNum(Get(p, "lat")) /\ IsNum(Get(p, "lon"))

DistanceKey(p) ==
    HaversineMiles(Get(myLoc, "lat"), Get(myLoc, "lon"), Get(p, "lat"), Get(p, "lon"))

\* Two places have the same sort key under the strategy in effect
SameKey(x, y) ==
    CASE sort = SortName ->
            Or(Get(x, "name"), EmptyStr) = Or(Get(y, "name"), EmptyStr)
      [] sort = SortRecent ->
            Or(Get(x, "visitedAt"), EmptyStr) = Or(Get(y, "visitedAt"), EmptyStr)
      [] sort = SortNearest ->
            \/ myLoc = Null
            \/ ~ValidCoords(x) /\ ~ValidCoords(y)
            \/ ValidCoords(x) /\ ValidCoords(y) /\ DistanceKey(x) = DistanceKey(y)
      [] OTHER -> RatingKey(x) = RatingKey(y)

\* C12: for every sort strategy, two places whose sort keys are equal are in
\* the output in the same relative order as in the input.
C12_Stable ==
    ~crashed =>
        \A engine \in SortEngines :
            LET arr == filtered.v
                out == sorted(engine)
            IN /\ IsReordering(out, arr)
               /\ \A i, j \in 1..Len(arr) :
                     (i < j /\ SameKey(arr[i], arr[j]))
                     => IndexIn(out, arr[i]) < IndexIn(out, arr[j])

\* C13: under the nearest strategy without a user location the sort gives
\* the filtered list in its input order, and nothing is raised.
C13_NearestWithoutLocation ==
    (sort = SortNearest /\ myLoc = Null) =>
        /\ ~crashed
        /\ \A engine \in SortEngines : sorted(engine) = filtered.v

\* A position request was refused, there is still no location, and the list
\* shown starts with an unrated place ahead of rated ones
C13_Witness ==
    /\ sort = SortNearest
    /\ myLoc = Null
    /\ lastOp.op = "locationFailed"
    /\ Len(filtered.v) = 5
    /\ sorted("later-first")[1] = NoCoords
    /\ sorted("earlier-first")[2] = BaoFar

\* C14: under the nearest strategy with a user location, every place lacking
\* valid coordinates (a latitude or longitude that is absent, null or not a
\* number) comes after all places with valid coordinates, and the places
\* lacking them keep their input order among themselves.
C14_NoCoordsLast ==
    (sort = SortNearest /\ myLoc # Null /\ ~crashed) =>
        \A engine \in SortEngines :
            LET arr == filtered.v
                out == sorted(engine)
            IN /\ IsReordering(out, arr)
               /\ \A i, j \in 1..Len(arr) :
                     \/ ValidCoords(arr[i]) /\ ~ValidCoords(arr[j])
                     \/ (~ValidCoords(arr[i]) /\ ~ValidCoords(arr[j]) /\ i < j)
                     => IndexIn(out, arr[i]) < IndexIn(out, arr[j])

\* C15: under the nearest strategy with a user location, any three places
\* A, B, C with valid coordinates and d(A) < d(B) < d(C) are listed A
\* before B before C, whatever other places the list holds.
C15_DistanceMonotone ==
    (sort = SortNearest /\ myLoc # Null /\ ~crashed) =>
        \A engine \in SortEngines :
            LET arr == filtered.v
                out == sorted(engine)
            IN /\ IsReordering(out, arr)
               /\ \A a, b, c \in {p \in Elements(arr) : ValidCoords(p)} :
                     (DistanceKey(a) < DistanceKey(b) /\ DistanceKey(b) < DistanceKey(c))
                     => /\ IndexIn(out, a) < IndexIn(out, b)
                        /\ IndexIn(out, b) < IndexIn(out, c)

\* A position arrived for a list of three places at 6.9, 0 and 4.7 miles
\* mixed with two places without coordinates
C15_Witness ==
    /\ sort = SortNearest
    /\ lastOp.op = "locationFound"
    /\ myLoc = Obj([lat |-> Num(476), lon |-> Num(-1223)])
    /\ filtered.v = <<NoCoords, BaoFar, TextCoords, BaoNear, ZeroRated>>
    /\ sorted("later-first") = <<BaoNear, ZeroRated, BaoFar, NoCoords, TextCoords>>
    /\ sorted("earlier-first") = <<BaoNear, ZeroRated, BaoFar, TextCoords, NoCoords>>

\* ---------------------------------------------------------------- URL claims

\* The query state every absent parameter decodes to
DefaultQuery ==
    [q |-> EmptyStr, city |-> EmptyStr, cuisine |-> EmptyStr,
     neighborhood |-> EmptyStr, tag |-> EmptyStr, minRating |-> Num(0),
     price |-> Num(0), wouldReturn |-> Bool(FALSE), sort |-> SortTop]

\* As the claim words it: decoding the encoding of any query state gives
\* the state back
C16_RoundTripAsClaimed ==
    /\ ParseUrlState(WriteUrlState(Query)) = Query
    /\ ParseUrlState(NoParams) = DefaultQuery

\* A query state whose minRating and price are numbers not below 0 and
\* whose sort is not the empty string
Encodable(Q) ==
    /\ IsNum(Q.minRating) /\ Q.minRating.n >= 0
    /\ IsNum(Q.price) /\ Q.price.n >= 0
    /\ Q.sort # EmptyStr

\* C16: for every query state whose minRating and price are not negative
\* and not NaN and whose sort is not empty, decoding the query string
\* produced by encoding it gives the state back; any other state comes back
\* with those fields at their defaults, and absent parameters decode to the
\* defaults.
C16_RoundTrip ==
    /\ Encodable(Query) => ParseUrlState(WriteUrlState(Query)) = Query
    /\ ParseUrlState(WriteUrlState(Query)) =
          [Query EXCEPT
              !.minRating = IF Positive(Query.minRating) THEN @ ELSE Num(0),
              !.price = IF Positive(Query.price) THEN @ ELSE Num(0),
              !.sort = IF @ = EmptyStr THEN SortTop ELSE @]
    /\ ParseUrlState(NoParams) = DefaultQuery

\* A link with a search term, a price and the flag, then the minimum rating
\* set to 4.5: the query string carries "4.5" and decodes to the state
C16_Witness ==
    /\ lastOp.op = "setMinRating"
    /\ minRating = Num(45)
    /\ price = Num(20)
    /\ q = Str(<<" ", "R", "A", " ">>)
    /\ wouldReturn = Bool(TRUE)
    /\ "minRating" \in DOMAIN url
    /\ url["minRating"] = <<"4", ".", "5">>
    /\ ParseUrlState(url) = Query

\* C17: the query state is initialised from the query string at load; after
\* every change of a query field, by a control, clearFilters, applyFeatured
\* or a history traversal, the query string is the encoding of the query
\* state; and on a history traversal every query field has the value
\* decoded from the query string the browser went to.
C17_UrlMirrorsQuery ==
    [][/\ Query' # Query => url' = WriteUrlState(Query')
       /\ lastOp'.op = "load" =>
             Query' = ParseUrlState(url) /\ url' = WriteUrlState(Query')
       /\ lastOp'.op = "popstate" => Query' = ParseUrlState(lastOp'.search)
      ]_vars

\* After the filters were changed away from the link the page was opened
\* with, a traversal back to ?city=Sea&minRating=4 restored them
C17_Witness ==
    /\ lastOp.op = "popstate"
    /\ events >= 2
    /\ lastOp.search = UrlSeattleFour
    /\ city = Seattle
    /\ minRating = Num(40)
    /\ url = UrlSeattleFour

\* ---------------------------------------------------------------- export claim

\* The fields of a Place in the base schema
SchemaFields ==
    {"id", "name", "address", "lat", "lon", "city", "neighborhood", "cuisine",
     "tags", "rating", "price", "wouldReturn", "notes", "photo", "website",
     "visitedAt"}

\* An effective place without the fields the schema does not have
InSchema(p) == Obj([k \in DOMAIN p.o \cap SchemaFields |-> p.o[k]])

\* C18: the exported document is the merge-stage output for the current
\* overlay restricted to the fields of the base schema: the same places in
\* base order, the patched values for patched fields, and no field the base
\* records do not have.
C18_ExportIsMerge ==
    lastOp.op = "exportPlaces" =>
        lastOp.file =
            JsonStringify(Arr([i \in 1..Len(places) |-> InSchema(places[i])]))

\* ---------------------------------------------------------------- location claims

\* The callback that has just run belongs to a request issued before the
\* most recent one
Superseded == lastOp'.request < issued

\* C19: when two location requests are pending at once the later one
\* supersedes the earlier: the callback of the earlier request changes neither
\* the user location nor the location error, and after the callback of the
\* most recent request both are the ones that request produced, in whichever
\* order the callbacks arrive.
C19_LastRequestWins ==
    [][/\ lastOp'.op \in {"locationFound", "locationFailed"} /\ Superseded =>
            myLoc' = myLoc /\ locErr' = locErr
       /\ lastOp'.op = "locationFound" /\ ~Superseded =>
            /\ myLoc' = Obj([lat |-> Get(lastOp'.answer, "lat"),
                             lon |-> Get(lastOp'.answer, "lon")])
            /\ locErr' = EmptyStr
       /\ lastOp'.op = "locationFailed" /\ ~Superseded =>
            locErr' = Or(lastOp'.answer, CouldNotGetLocation)
      ]_vars

\* C20: whenever a location request ends in timeout or denial, the nearest
\* strategy afterwards returns the filtered list in input order, also when an
\* earlier request had stored a user location.
C20_NearestAfterFailure ==
    lastOp.op = "locationFailed" /\ sort = SortNearest =>
        \A engine \in SortEngines : sorted(engine) = filtered.v

\* The request that has just been handled ended without a position
RequestFailed ==
    \/ lastOp'.op = "locationFailed"
    \/ lastOp'.op = "requestLocation" /\ ~geolocation

NoNumber(v) == v = EmptyStr \/ ~NumberIsFinite(ToNumber(v))

\* C22: saving an edit whose rating or price input is empty or not a finite
\* number stores null for that field: saveEdit with a draft always stores a
\* patch for the place, raises nothing and leaves edit mode.
C22_InvalidNumberIsNull ==
    [][lastOp'.op = "saveEdit" /\ Truthy(draft) =>
          LET patch == Get(edits', ToKey(editingId.s)) IN
          /\ TypeOf(patch) = "object"
          /\ NoNumber(Get(draft, "rating")) => Get(patch, "rating") = Null
          /\ NoNumber(Get(draft, "price")) => Get(patch, "price") = Null
          /\ editingId' = Null
          /\ draft' = Null
          /\ ~crashed'
      ]_vars

C22_TextRatingSaved ==
    /\ lastOp.op = "saveEdit"
    /\ Get(lastOp.draft, "rating") = Str(<<"x">>)
    /\ Get(Get(edits, "a"), "rating") = Null
    /\ editingId = Null

\* ---------------------------------------------------------------- map claim

\* C23: a place whose latitude or longitude is missing, null or otherwise
\* invalid is never given a map marker, yet it is still listed whenever it
\* matches the query; the set of map markers is exactly the set of listed
\* places that have valid coordinates.
C23_MarkersHaveCoords ==
    \A engine \in SortEngines :
        /\ \A p \in Elements(Markers(engine)) : ValidCoords(p)
        /\ Elements(Markers(engine)) =
               {p \in Elements(sorted(engine)) : ValidCoords(p)}
        /\ \A p \in Elements(places) :
               Matches(p, Query) = "in" => p \in Elements(sorted(engine))

\* ---------------------------------------------------------------- pipeline claim

\* C24: the merge, filter, sort and facet stages never throw for any
\* persisted overlay content that loads as a mapping and any query state
\* decoded from a query string: whatever the stored patches carry, the
\* pipeline produces a list and rendering is not aborted.
C24_PipelineNeverThrows ==
    edits.t = "object" => ~filtered.threw /\ ~crashed

\* ---------------------------------------------------------------- facet claim

\* The values of a field seen in the effective list that are not empty, an
\* array counting by its elements when flat
Observed(field, flat) ==
    {v \in UNION {LET x == Get(places[i], field) IN
                  IF flat /\ x.t = "array" THEN Elements(x.a) ELSE {x}
                  : i \in 1..Len(places)} :
        v \notin {Undefined, Null, EmptyStr}}

\* f is in strictly increasing lexical order and holds exactly the values
IsFacetOf(f, values) ==
    /\ \A i \in 1..Len(f) : \A j \in (i + 1)..Len(f) :
           CompareCodeUnits(ElementText(f[i]), ElementText(f[j])) < 0
    /\ \A i \in 1..Len(f) : f[i] # EmptyStr
    /\ Elements(f) = values

\* C25: for every effective list each of the four facet sequences is
\* lexically sorted, has no duplicate and no empty value, and holds exactly
\* the non-empty values observed in the effective list, cuisines and tags
\* flattened across places.
C25_Facets ==
    \A engine \in SortEngines :
        /\ IsFacetOf(facets(engine).cities, Observed("city", FALSE))
        /\ IsFacetOf(facets(engine).hoods, Observed("neighborhood", FALSE))
        /\ IsFacetOf(facets(engine).cuisines, Observed("cuisine", TRUE))
        /\ IsFacetOf(facets(engine).tags, Observed("tags", TRUE))

C25_Witness ==
    /\ MapField(places, "city") = <<Seattle, EmptyStr>>
    /\ FlatMapField(places, "tags") = <<DateNight, LateNight, DateNight>>
    /\ \A engine \in SortEngines :
           /\ facets(engine).tags = <<DateNight, LateNight>>
           /\ facets(engine).cities = <<Seattle>>

\* ---------------------------------------------------------------- edit mode, lists, featured views

\* The places of the effective list whose card is in edit mode
InEditMode == {i \in 1..Len(places) : StrictEq(editingId, Get(places[i], "id"))}

\* C26: after any sequence of startEdit, cancelEdit, saveEdit,
\* clearLocalEdits and filter changes the editing identifier is null exactly
\* when the draft is null and at most one place is in edit mode; saveEdit and
\* cancelEdit both leave edit mode, and saveEdit with no draft changes
\* nothing in the overlay.
C26_EditMode ==
    /\ []((editingId = Null <=> draft = Null) /\ Cardinality(InEditMode) <= 1)
    /\ [][/\ lastOp'.op \in {"saveEdit", "cancelEdit"} =>
                editingId' = Null /\ draft' = Null
          /\ lastOp'.op = "saveEdit" /\ ~Truthy(draft) => edits' = edits
         ]_vars

C26_Witness ==
    /\ lastOp.op = "popstate"
    /\ editingId # Null
    /\ draft # Null
    /\ ~FormShown
    /\ Cardinality(InEditMode) = 1

\* sub is a subsequence of seq: its elements, in their order, at increasing
\* positions of seq
RECURSIVE IsSubsequence(_, _)
IsSubsequence(sub, seq) ==
    IF sub = <<>> THEN TRUE
    ELSE IF seq = <<>> THEN FALSE
    ELSE IF Head(sub) = Head(seq) THEN IsSubsequence(Tail(sub), Tail(seq))
    ELSE IsSubsequence(sub, Tail(seq))

NoRepeats(a) == \A i, j \in 1..Len(a) : a[i] = a[j] => i = j

\* C27: in every reachable state the displayed list is a permutation of the
\* filtered list and the filtered list is a subsequence of the effective
\* list, no place duplicated, invented or altered, so the displayed count
\* never exceeds the total count.
C27_ListsArePlaces ==
    /\ IsSubsequence(filtered.v, places)
    /\ NoRepeats(filtered.v)
    /\ \A engine \in SortEngines :
           /\ IsReordering(sorted(engine), filtered.v)
           /\ NoRepeats(sorted(engine))
           /\ Len(sorted(engine)) <= Len(places)

C27_Witness ==
    /\ myLoc # Null
    /\ Len(filtered.v) = 2
    /\ Len(places) = 4
    /\ \A engine \in SortEngines : sorted(engine) # filtered.v

\* The query state of a featured view: the defaults and its one constraint
FeaturedView(which) ==
    CASE which = "top" -> [DefaultQuery EXCEPT !.minRating = Num(45)]
      [] which = "date-night" -> [DefaultQuery EXCEPT !.tag = DateNight]
      [] which = "late-night" -> [DefaultQuery EXCEPT !.tag = LateNight]
      [] which = "cheap" -> [DefaultQuery EXCEPT !.price = Num(10)]
      [] which = "recent" -> [DefaultQuery EXCEPT !.sort = SortRecent]

\* C28: from any query state applyFeatured(which) for a known key ends in
\* the query state where every filter is at its default except the single
\* constraint of that view, with sort top (recent for the recent view), and
\* the menu closed; the overlay and the user location are unchanged.
C28_FeaturedView ==
    [][lastOp'.op = "applyFeatured" =>
          /\ Query' = FeaturedView(lastOp'.which)
          /\ ~menuOpen'
          /\ edits' = edits
          /\ myLoc' = myLoc
      ]_vars

C28_Witness ==
    /\ lastOp.op = "applyFeatured"
    /\ lastOp.which = "cheap"
    /\ Query = [DefaultQuery EXCEPT !.price = Num(10)]
    /\ url = [k \in {"price"} |-> <<"1">>]
    /\ ~menuOpen

\* C29: from any state clearFilters sets every query field to its default
\* and the selection to none, so that the filtered list is the whole
\* effective list and the query string becomes empty, while the overlay, the
\* edit mode and the user location are left unchanged.
C29_ClearFilters ==
    [][lastOp'.op = "clearFilters" =>
          /\ Query' = DefaultQuery
          /\ selectedId' = Null
          /\ Filtered(Places(basePlaces', edits'), Query').v
                = Places(basePlaces', edits')
          /\ url' = NoParams
          /\ UNCHANGED <<edits, editingId, draft, myLoc>>
      ]_vars

C29_Witness ==
    /\ lastOp.op = "clearFilters"
    /\ editingId # Null
    /\ draft # Null
    /\ edits # EmptyObj
    /\ Len(filtered.v) = 2

\* ---------------------------------------------------------------- add-place claim

\* The latitude or longitude a record gives, in ten-thousandths of a
\* degree: a number, or the text of one
Degrees(v) ==
    IF IsNum(v) THEN {v.n}
    ELSE IF v = TextLat THEN {476000}
    ELSE IF v = TextLon THEN {-1223000}
    ELSE {}

Within(a, b) ==
    \E x \in Degrees(a), y \in Degrees(b) :
        (IF x < y THEN y - x ELSE x - y) < NearDistance

\* The record the run has written for its candidate
Written(candidate) == ToJson(candidate)

====
